---- MODULE Spec2Model ----
(***************************************************************************)
(* Rollout core of openhands/rl: the networked environment client, the     *)
(* demonstration environment server it talks to, the three rollout         *)
(* strategies and the controller that schedules rollouts.                  *)
(*                                                                         *)
(* Rewards are kept in hundredths (0.05 is 5, 1.0 is 100) so that the      *)
(* server's arithmetic stays in the integers.                              *)
(***************************************************************************)
EXTENDS Integers, Sequences, FiniteSets, TLC

(***************************************************************************)
(* Bounds of the model.                                                    *)
(***************************************************************************)
\* Tree-Exploring: num_branches is 1..MaxBranches and depth 1..MaxDepth, and
\* of these pairs (b, d) the ones explored need at most MaxTreeSteps
\* environment steps, b + b^2 + ... + b^d <= MaxTreeSteps.
MaxBranches == 2
MaxDepth == 2
MaxTreeSteps == 6
\* Largest max_rounds a caller passes (None is passed as well).
MaxRounds == 2
\* Number of remote calls that may fail in one behaviour.
MaxNetFail == 1
\* Largest number of task indices one rollout() call is given.
MaxTasks == 2
\* Largest max_rounds of a Sequential rollout.
MaxReActRounds == 3

\* Python's None for an Optional[int].
None == 0 - 1

\* What the opaque generation capability may return: the empty utterance,
\* and utterances the demonstration server tells apart.
Actions == {"", "view hiking backpack", "buy"}

\* The task indices rollouts are started for.
TaskIdxs == {0, 1}

\* The fate of one HTTP request: answered, or lost before the server saw it
\* (connection refused, timeout on the way in).
Nets == {"ok", "lost"}

\* A third fate: the server handled the request, but its answer did not
\* arrive in time, could not be decoded or held no state.
NetsAll == Nets \cup {"late"}

(***************************************************************************)
(* The demonstration server: one ShoppingEnvironment for every request.    *)
(***************************************************************************)
NumTasks == 3
MaxEnvSteps == 10
StepPenalty == 5

target_product(t) == CASE t = 0 -> 1 [] t = 1 -> 2 [] OTHER -> 4

initial_state(t) ==
    CASE t = 0 -> "You are shopping for a hiking backpack."
      [] t = 1 -> "You are shopping for a laptop backpack."
      [] OTHER -> "You are shopping for a school backpack."

\* The product a "view" action names (0: none of the catalogue).
ViewedProduct(a) ==
    CASE a = "view hiking backpack" -> 1
      [] a = "view laptop backpack" -> 2
      [] OTHER -> 0

ProductName(p) == IF p = 1 THEN "Hiking Backpack" ELSE "Laptop Backpack"

\* Which branch of ShoppingEnvironment.step an action takes.
ActionKind(a) ==
    CASE a \in {"search", "find backpacks"} -> "search"
      [] a \in {"view hiking backpack", "view laptop backpack", "view tent"} -> "view"
      [] a \in {"buy", "purchase"} -> "buy"
      [] OTHER -> "other"

\* ShoppingEnvironment.__init__
EnvNew == [current_task |-> None, current_state |-> "", current_product |-> 0,
           done |-> FALSE, steps |-> 0]

\* ShoppingEnvironment.reset
EnvReset(idx) ==
    LET t == IF idx >= NumTasks THEN 0 ELSE idx
    IN  [current_task |-> t, current_state |-> initial_state(t),
         current_product |-> 0, done |-> FALSE, steps |-> 0]

MaxStepsSuffix == "\n\nYou've reached the maximum number of steps."

\* ShoppingEnvironment.step: the environment afterwards, whether the handler
\* raised (the server then answers 500), and the response body.
EnvStep(e, a) ==
    LET steps == e.steps + 1
        kind  == ActionKind(a)
        p     == ViewedProduct(a)
        raised == kind = "buy" /\ e.current_product # 0 /\ e.current_task = None
        bought == kind = "buy" /\ e.current_product # 0
        right == bought /\ ~raised /\ e.current_product = target_product(e.current_task)
        state ==
            CASE kind = "search" -> "Here are the available products"
              [] kind = "view" /\ p # 0 -> "Product: " \o ProductName(p)
              [] kind = "view" /\ p = 0 -> "I couldn't find that product."
              [] kind = "buy" /\ ~bought -> "Please view a product before trying to purchase it."
              [] kind = "buy" /\ right -> "Great choice! You've purchased the " \o ProductName(e.current_product)
              [] kind = "buy" /\ ~right -> "You've purchased the " \o ProductName(e.current_product) \o ", but"
              [] OTHER -> "I'm not sure how to respond to that."
        base ==
            CASE kind = "search" -> 10
              [] kind = "view" /\ p # 0 -> 20
              [] kind = "view" /\ p = 0 -> 0 - 10
              [] kind = "buy" /\ ~bought -> 0 - 10
              [] kind = "buy" /\ right -> 100
              [] kind = "buy" /\ ~right -> 30
              [] OTHER -> 0
        maxed == steps >= MaxEnvSteps
        done  == e.done \/ bought \/ maxed
        final == IF maxed THEN state \o MaxStepsSuffix ELSE state
    IN  IF raised
        THEN [env |-> [e EXCEPT !.steps = steps], raised |-> TRUE,
              state |-> "", reward |-> 0, done |-> FALSE]
        ELSE [env |-> [current_task |-> e.current_task, current_state |-> final,
                       current_product |-> IF kind = "view" /\ p # 0 THEN p
                                           ELSE e.current_product,
                       done |-> done, steps |-> steps],
              raised |-> FALSE,
              state |-> final, reward |-> base - StepPenalty * steps, done |-> done]

(***************************************************************************)
(* WebEnvClient                                                            *)
(***************************************************************************)
\* WebEnvClient.__init__
ClientNew == [current_state |-> "", current_idx |-> 0]

ErrorState == "Error: request failed"

\* step() without its except clause: a failed request leaves step() as an
\* exception.
ClientStepUncaught(c, e, a, net) ==
    LET r == EnvStep(e, a)
        answered == net = "ok" /\ ~r.raised
    IN  [client |-> IF answered THEN [c EXCEPT !.current_state = r.state] ELSE c,
         env    |-> IF net # "lost" THEN r.env ELSE e,
         raised |-> ~answered,
         out    |-> [state |-> r.state, reward |-> r.reward, done |-> r.done]]

\* step() that posts an empty action whatever it is given.
ClientStepBlank(c, e, a, net) ==
    LET r == EnvStep(e, "")
        answered == net = "ok" /\ ~r.raised
    IN  [client |-> IF answered THEN [c EXCEPT !.current_state = r.state] ELSE c,
         env    |-> IF net # "lost" THEN r.env ELSE e,
         raised |-> FALSE,
         out    |-> IF answered
                    THEN [state |-> r.state, reward |-> r.reward, done |-> r.done]
                    ELSE [state |-> ErrorState, reward |-> 0, done |-> TRUE]]

\* The fields the json body of a /step response may hold: all three, or
\* some of them.
FullShape == {"state", "reward", "done"}
ResponseShapes == {FullShape, {"state", "done"}, {"state", "reward"}, {"state"},
                   {"reward", "done"}}

\* The json body of the response to a step with result r, with the fields
\* of the shape.
Body(r, shape) ==
    [f \in shape |-> CASE f = "state" -> [v |-> r.state]
                       [] f = "reward" -> [v |-> r.reward]
                       [] OTHER -> [v |-> r.done]]

\* step() that takes a missing done field for the end of the episode.
ClientStepShapedStrict(c, e, a, net, shape) ==
    LET r == EnvStep(e, a)
        data == Body(r, shape)
        parsed == net = "ok" /\ ~r.raised /\ "state" \in DOMAIN data
    IN  [client |-> IF parsed THEN [c EXCEPT !.current_state = data["state"].v] ELSE c,
         env    |-> IF net # "lost" THEN r.env ELSE e,
         raised |-> FALSE,
         out    |-> IF parsed
                    THEN [state |-> data["state"].v,
                          reward |-> IF "reward" \in DOMAIN data THEN data["reward"].v
                                     ELSE 0,
                          done |-> IF "done" \in DOMAIN data THEN data["done"].v
                                   ELSE TRUE]
                    ELSE [state |-> ErrorState, reward |-> 0, done |-> TRUE]]

\* step() whose except clause stores the diagnostic as the current state.
ClientStepShapedStoring(c, e, a, net, shape) ==
    LET r == EnvStep(e, a)
        data == Body(r, shape)
        parsed == net = "ok" /\ ~r.raised /\ "state" \in DOMAIN data
    IN  [client |-> [c EXCEPT !.current_state = IF parsed THEN data["state"].v
                                                ELSE ErrorState],
         env    |-> IF net # "lost" THEN r.env ELSE e,
         raised |-> FALSE,
         out    |-> IF parsed
                    THEN [state |-> data["state"].v,
                          reward |-> IF "reward" \in DOMAIN data THEN data["reward"].v
                                     ELSE 0,
                          done |-> IF "done" \in DOMAIN data THEN data["done"].v
                                   ELSE FALSE]
                    ELSE [state |-> ErrorState, reward |-> 0, done |-> TRUE]]

\* WebEnvClient.step(action) with the request's fate `net` and a response
\* body of the given shape: the client and the server afterwards, the
\* StepOutput returned, and whether an exception leaves step() instead (the
\* except clause catches every Exception, the KeyError of data["state"]
\* included). reward and done are read with data.get and their defaults.
ClientStepShaped(c, e, a, net, shape) ==
    LET r == EnvStep(e, a)
        served == net # "lost"
        answered == net = "ok" /\ ~r.raised
        data == Body(r, shape)
        parsed == answered /\ "state" \in DOMAIN data
    IN  [client |-> IF parsed THEN [c EXCEPT !.current_state = data["state"].v] ELSE c,
         env    |-> IF served THEN r.env ELSE e,
         raised |-> FALSE,
         out    |-> IF parsed
                    THEN [state |-> data["state"].v,
                          reward |-> IF "reward" \in DOMAIN data THEN data["reward"].v
                                     ELSE 0,
                          done |-> IF "done" \in DOMAIN data THEN data["done"].v
                                   ELSE FALSE]
                    ELSE [state |-> ErrorState, reward |-> 0, done |-> TRUE]]

\* WebEnvClient.step(action) against the repository's server, whose
\* responses hold all three fields.
ClientStep(c, e, a, net) == ClientStepShaped(c, e, a, net, FullShape)

\* The json body of the request step() posts.
StepRequest(c, a) == [action |-> a, idx |-> c.current_idx]

\* reset() whose except clause leaves current_state as it was.
ClientResetKeepsState(c, e, idx, net) ==
    LET e2 == IF net # "lost" THEN EnvReset(idx) ELSE e
    IN  [client |-> [current_idx |-> idx,
                     current_state |-> IF net = "ok" THEN e2.current_state
                                       ELSE c.current_state],
         env    |-> e2]

\* WebEnvClient.reset(idx) with the request's fate `net`.
ClientReset(c, e, idx, net) ==
    LET served == net # "lost"
        e2 == IF served THEN EnvReset(idx) ELSE e
    IN  [client |-> [current_idx |-> idx,
                     current_state |-> IF net = "ok" THEN e2.current_state
                                       ELSE ErrorState],
         env    |-> e2]

\* WebEnvClient.observe
ClientObserve(c) == c.current_state


(***************************************************************************)
(* Common strategy behaviour                                               *)
(***************************************************************************)
Human(v) == [from |-> "human", loss |-> "None", value |-> v]
Gpt(v)   == [from |-> "gpt", loss |-> "True", value |-> v]

\* The transcript text of a conversation.
RECURSIVE BuildText(_)
BuildText(conv) ==
    IF conv = <<>> THEN ""
    ELSE LET m == conv[Len(conv)]
             front == BuildText(SubSeq(conv, 1, Len(conv) - 1))
         IN  IF m.from = "human" THEN front \o "\nHuman: " \o m.value
             ELSE front \o "\nAssistant: " \o m.value

\* An experience that forgets the reward it is given.
CreateExperienceOutputNoReward(conversation, reward, text) ==
    [conversation |-> conversation, reward |-> 0, text |-> text]

\* BaseRolloutStrategy._create_experience_output (the token ids are those of
\* an opaque tokenizer and are left out).
CreateExperienceOutput(conversation, reward, text) ==
    [conversation |-> conversation, reward |-> reward, text |-> text]

(***************************************************************************)
(* State                                                                   *)
(***************************************************************************)
VARIABLES
    env,            \* the server's ShoppingEnvironment
    client,         \* the WebEnvClient handed to the strategy
    cfg,            \* the parameters of the invocation under study
    netFails,       \* remote calls that failed so far
    pc,             \* position of the strategy invocation
    trajectories,   \* what the strategy returns
    nodes,          \* Tree-Exploring: the TrajectoryNodes, in creation order
    nodeNet,        \* Tree-Exploring: per node, the fate of the step that made it
    stack,          \* Tree-Exploring: the active _generate_tree calls
    cpc,            \* Controller: position of the rollout() call
    batch,          \* Controller: offset of the batch in flight
    fut,            \* Controller: per requested index, its _rollout_one run
    results,        \* Controller: the list rollout() builds and returns
    storage,        \* Controller: the records the storage holds
    mpc,            \* Search-Guided: position of MCTSStrategy.execute
    mcts,           \* Search-Guided: conversation, rounds, reward, done
    search,         \* Search-Guided: the _run_mcts call of the round
    files,          \* Storage: the files under storage_dir, in creation order
    docs,           \* Storage: the documents of the MongoDB collection
    clock,          \* Storage: the last reading of datetime.now()
    uuids,          \* Storage: how many ids uuid4() has handed out
    saver,          \* Storage: per caller, its save_trajectories call
    returned,       \* Storage: the save_trajectories calls that returned
    ret,            \* Storage: the get_trajectory / get_trajectories call just made
    agent,          \* Agent: position and outcome of RLAgent.__init__
    call            \* Client: the last call made on a WebEnvClient used directly

envVars == <<env, client, cfg, netFails>>
totVars == <<pc, trajectories, nodes, nodeNet, stack>>
ctlVars == <<cpc, batch, fut, results, storage>>
mctsVars == <<mpc, mcts, search>>
stoVars == <<files, docs, clock, uuids, saver, returned, ret>>
agentVars == <<agent>>
callVars == <<call>>
restVars == <<stoVars, agentVars, callVars>>
vars == <<envVars, totVars, ctlVars, mctsVars, restVars>>

\* The variables of a component no invocation of which is under way.
TotIdle == pc = "idle" /\ trajectories = <<>> /\ nodes = <<>> /\ nodeNet = <<>>
           /\ stack = <<>>
CtlIdle == cpc = "idle" /\ batch = 0 /\ fut = <<>> /\ results = <<>>
           /\ storage = <<>>
MctsIdle == mpc = "idle" /\ mcts = <<>> /\ search = <<>>
StoIdle == files = <<>> /\ docs = <<>> /\ clock = 0 /\ uuids = 0 /\ saver = <<>>
           /\ returned = <<>> /\ ret = <<>>
AgentIdle == agent = [pc |-> "none"]
CallIdle == call = [op |-> "none"]

\* BaseEnvClient.conversation_start: a class attribute, () unless the
\* client's class sets its own.
conversation_start == cfg.conversation_start

\* The prefixes a client class may have: none, or an instruction and its
\* acknowledgement.
ConversationStarts == {<<>>, <<Human("Instructions"), Gpt("OK")>>}

\* The fates a request may have while failures are left.
NetChoices == IF netFails < MaxNetFail THEN cfg.nets ELSE {"ok"}

CountFail(net) == IF net = "ok" THEN netFails ELSE netFails + 1

RECURSIVE Pow(_, _)
Pow(b, d) == IF d = 0 THEN 1 ELSE b * Pow(b, d - 1)

RECURSIVE TreeSteps(_, _)
TreeSteps(b, d) == IF d = 0 THEN 0 ELSE Pow(b, d) + TreeSteps(b, d - 1)

\* The state a strategy is entered in: RLController._rollout_one has reset
\* the client to idx and observed.
AfterReset(idx) ==
    LET r == ClientReset(ClientNew, EnvNew, idx, "ok")
    IN  env = r.env /\ client = r.client

(***************************************************************************)
(* ToTStrategy                                                             *)
(***************************************************************************)
\* The branch loop running one pass too many.
BranchLoopOverLate(f) == f.i >= cfg.num_branches + 1

\* for _ in range(self.num_branches): the loop of a call is over.
BranchLoopOver(f) == f.i >= cfg.num_branches

\* An entry of _generate_tree that never looks at max_rounds.
TreeCallNoCut(ns, cl, observation, conversation, depth, current_round) ==
    [nodes |-> Append(ns, [observation |-> observation, thought |-> "",
                           action |-> "", reward |-> 0, done |-> FALSE,
                           children |-> <<>>]),
     frame |-> [node |-> Len(ns) + 1, client_copy |-> cl,
                conversation |-> conversation, depth |-> depth,
                current_round |-> current_round, i |-> 0, child |-> 0,
                cut |-> FALSE]]

\* The entry of _generate_tree: the call's node and its frame; `cut` says the
\* max_rounds check returned the node at once.
TreeCall(ns, cl, observation, conversation, depth, current_round) ==
    [nodes |-> Append(ns, [observation |-> observation, thought |-> "",
                           action |-> "", reward |-> 0, done |-> FALSE,
                           children |-> <<>>]),
     frame |-> [node |-> Len(ns) + 1, client_copy |-> cl,
                conversation |-> conversation, depth |-> depth,
                current_round |-> current_round, i |-> 0, child |-> 0,
                cut |-> cfg.max_rounds # None /\ current_round >= cfg.max_rounds]]

\* ToTStrategy.execute up to the first _generate_tree call.
ToTExecute ==
    /\ pc = "start"
    /\ LET obs == ClientObserve(client)
           c == TreeCall(<<>>, client, obs,
                         conversation_start \o <<Human(obs)>>, cfg.depth, 0)
       IN  /\ nodes' = c.nodes
           /\ nodeNet' = <<"none">>
           /\ stack' = <<c.frame>>
    /\ pc' = "tree"
    /\ UNCHANGED <<envVars, trajectories, ctlVars, mctsVars, restVars>>

\* A pass of the branch loop that steps the client it was given instead of
\* a copy.
ToTBranchOnCaller ==
    /\ pc = "tree"
    /\ LET f == stack[Len(stack)]
       IN  /\ ~f.cut
           /\ ~BranchLoopOver(f)
           /\ \E generated_text \in Actions, net \in NetChoices :
                LET s == ClientStep(client, env, generated_text, net)
                    branch_conversation ==
                        f.conversation \o <<Gpt(generated_text), Human(s.out.state)>>
                    child == [observation |-> nodes[f.node].observation,
                              thought |-> "", action |-> generated_text,
                              reward |-> s.out.reward, done |-> s.out.done,
                              children |-> <<>>]
                    id == Len(nodes) + 1
                    withChild == Append(nodes, child)
                IN  /\ env' = s.env
                    /\ client' = s.client
                    /\ netFails' = CountFail(net)
                    /\ IF f.depth > 1 /\ ~s.out.done
                       THEN LET c == TreeCall(withChild, s.client, s.out.state,
                                              branch_conversation, f.depth - 1,
                                              f.current_round + 1)
                            IN  /\ nodes' = c.nodes
                                /\ nodeNet' = nodeNet \o <<net, "none">>
                                /\ stack' = [stack EXCEPT ![Len(stack)].child = id]
                                            \o <<c.frame>>
                       ELSE /\ nodes' = [withChild EXCEPT
                                           ![f.node].children = Append(@, id)]
                            /\ nodeNet' = Append(nodeNet, net)
                            /\ stack' = [stack EXCEPT ![Len(stack)].i = @ + 1]
    /\ UNCHANGED <<cfg, pc, trajectories, ctlVars, mctsVars, restVars>>

\* One pass of the branch loop: generate, step a copy of the client, make the
\* child node, and either recurse into it or append it.
ToTBranch ==
    /\ pc = "tree"
    /\ LET f == stack[Len(stack)]
       IN  /\ ~f.cut
           /\ ~BranchLoopOver(f)
           /\ \E generated_text \in Actions, net \in NetChoices :
                LET s == ClientStep(f.client_copy, env, generated_text, net)
                    branch_conversation ==
                        f.conversation \o <<Gpt(generated_text), Human(s.out.state)>>
                    child == [observation |-> nodes[f.node].observation,
                              thought |-> "", action |-> generated_text,
                              reward |-> s.out.reward, done |-> s.out.done,
                              children |-> <<>>]
                    id == Len(nodes) + 1
                    withChild == Append(nodes, child)
                IN  /\ env' = s.env
                    /\ netFails' = CountFail(net)
                    /\ IF f.depth > 1 /\ ~s.out.done
                       THEN LET c == TreeCall(withChild, s.client, s.out.state,
                                              branch_conversation, f.depth - 1,
                                              f.current_round + 1)
                            IN  /\ nodes' = c.nodes
                                /\ nodeNet' = nodeNet \o <<net, "none">>
                                /\ stack' = [stack EXCEPT ![Len(stack)].child = id]
                                            \o <<c.frame>>
                       ELSE /\ nodes' = [withChild EXCEPT
                                           ![f.node].children = Append(@, id)]
                            /\ nodeNet' = Append(nodeNet, net)
                            /\ stack' = [stack EXCEPT ![Len(stack)].i = @ + 1]
    /\ UNCHANGED <<client, cfg, pc, trajectories, ctlVars, mctsVars, restVars>>

\* A _generate_tree call returns its node: the caller hangs it under the
\* child it recursed into and appends that child.
ToTReturn ==
    /\ pc = "tree"
    /\ LET f == stack[Len(stack)]
           rest == SubSeq(stack, 1, Len(stack) - 1)
       IN  /\ f.cut \/ BranchLoopOver(f)
           /\ IF rest = <<>>
              THEN /\ pc' = "extract"
                   /\ stack' = rest
                   /\ UNCHANGED nodes
              ELSE LET g == rest[Len(rest)]
                   IN  /\ nodes' = [nodes EXCEPT
                                      ![g.child].children = <<f.node>>,
                                      ![g.node].children = Append(@, g.child)]
                       /\ stack' = [rest EXCEPT ![Len(rest)].i = @ + 1,
                                                ![Len(rest)].child = 0]
                       /\ UNCHANGED pc
    /\ UNCHANGED <<envVars, trajectories, nodeNet, ctlVars, mctsVars, restVars>>

\* The conversation _extract_paths builds from a path.
RECURSIVE PathConversation(_)
PathConversation(path) ==
    IF path = <<>> THEN <<>>
    ELSE LET step == Head(path)
         IN  (IF step.observation # "" THEN <<Human(step.observation)>> ELSE <<>>)
             \o (IF step.action # "" THEN <<Gpt(step.action)>> ELSE <<>>)
             \o PathConversation(Tail(path))

\* ToTStrategy._extract_paths
RECURSIVE ExtractPaths(_, _, _)
RECURSIVE ExtractChildren(_, _, _)
ExtractPaths(ns, n, path) ==
    LET current_path == Append(path, [observation |-> ns[n].observation,
                                       action |-> ns[n].action])
    IN  IF ns[n].children = <<>>
        THEN LET conversation == PathConversation(current_path)
             IN  <<CreateExperienceOutput(conversation, ns[n].reward,
                                          BuildText(conversation))>>
        ELSE ExtractChildren(ns, ns[n].children, current_path)
ExtractChildren(ns, kids, path) ==
    IF kids = <<>> THEN <<>>
    ELSE ExtractPaths(ns, Head(kids), path) \o ExtractChildren(ns, Tail(kids), path)

\* ToTStrategy.execute after the tree is built.
ToTExtract ==
    /\ pc = "extract"
    /\ trajectories' = ExtractPaths(nodes, 1, <<>>)
    /\ pc' = "done"
    /\ UNCHANGED <<envVars, nodes, nodeNet, stack, ctlVars, mctsVars, restVars>>

ToTInit ==
    /\ \E idx \in TaskIdxs : AfterReset(idx)
    /\ \E b \in 1..MaxBranches, d \in 1..MaxDepth,
          r \in {None} \cup (0..MaxRounds) :
          /\ TreeSteps(b, d) <= MaxTreeSteps
          /\ \E cs \in ConversationStarts :
                 cfg = [max_rounds |-> r, num_branches |-> b, depth |-> d,
                        nets |-> Nets, conversation_start |-> cs]
    /\ netFails = 0
    /\ pc = "start"
    /\ trajectories = <<>>
    /\ nodes = <<>>
    /\ nodeNet = <<>>
    /\ stack = <<>>
    /\ CtlIdle
    /\ MctsIdle
    /\ StoIdle
    /\ AgentIdle
    /\ CallIdle

ToTNext == ToTExecute \/ ToTBranch \/ ToTReturn \/ ToTExtract

SpecToT == ToTInit /\ [][ToTNext]_vars

(***************************************************************************)
(* The generated tree, read independently of _extract_paths: node numbers  *)
(* are creation order, which is depth-first with siblings as generated.    *)
(***************************************************************************)
Range(q) == {q[k] : k \in 1..Len(q)}

RECURSIVE SortedSeq(_)
SortedSeq(S) ==
    IF S = {} THEN <<>>
    ELSE LET m == CHOOSE x \in S : \A y \in S : x <= y
         IN  <<m>> \o SortedSeq(S \ {m})

\* The nodes a step of the environment made (the others are the nodes a
\* _generate_tree call starts with).
StepNode(n) == nodeNet[n] # "none"

Leaves == {n \in 1..Len(nodes) : nodes[n].children = <<>>}
LeafSeq == SortedSeq(Leaves)

\* The node ids from the root to n.
RECURSIVE PathTo(_)
PathTo(n) ==
    IF n = 1 THEN <<1>>
    ELSE LET p == CHOOSE q \in 1..Len(nodes) : n \in Range(nodes[q].children)
         IN  Append(PathTo(p), n)

RECURSIVE StepNodesOf(_)
StepNodesOf(q) ==
    IF q = <<>> THEN <<>>
    ELSE (IF StepNode(Head(q)) THEN <<Head(q)>> ELSE <<>>) \o StepNodesOf(Tail(q))

\* The step nodes on the path from the root to n, and their actions.
PathSteps(n) == StepNodesOf(PathTo(n))
PathActions(n) == [k \in 1..Len(PathSteps(n)) |-> nodes[PathSteps(n)[k]].action]

\* The Agent turns of a conversation, in order.
RECURSIVE AgentTurns(_)
AgentTurns(conv) ==
    IF conv = <<>> THEN <<>>
    ELSE (IF Head(conv).from = "gpt" THEN <<Head(conv).value>> ELSE <<>>)
         \o AgentTurns(Tail(conv))

\* The environment a branch would meet had it been the only path taken: a
\* fresh episode of the task, stepped by the given actions.
RECURSIVE Replay(_, _)
Replay(idx, acts) ==
    IF acts = <<>> THEN EnvReset(idx)
    ELSE EnvStep(Replay(idx, SubSeq(acts, 1, Len(acts) - 1)), acts[Len(acts)]).env

\* The StepOutput the step that made node n returns on such an environment.
IsolatedOutput(n) ==
    LET acts == PathActions(n)
        r == EnvStep(Replay(client.current_idx, SubSeq(acts, 1, Len(acts) - 1)),
                     acts[Len(acts)])
    IN  IF nodeNet[n] = "ok"
        THEN [reward |-> r.reward, done |-> r.done]
        ELSE [reward |-> 0, done |-> TRUE]

\* C4: environment state does not leak between sibling branches: the reward
\* and done flag every branch received for its action are those an
\* environment stepped only by the actions of that branch's own
\* root-to-node path returns.
C4_NoLeakBetweenBranches ==
    pc = "done" =>
        \A n \in 1..Len(nodes) :
            StepNode(n) =>
                [reward |-> nodes[n].reward, done |-> nodes[n].done] = IsolatedOutput(n)

\* C5: the number of Experiences returned is at most b^d and is the number
\* of leaves of the generated tree.
C5_ExperienceCountIsLeafCount ==
    pc = "done" =>
        /\ Len(trajectories) <= Pow(cfg.num_branches, cfg.depth)
        /\ Len(trajectories) = Cardinality(Leaves)

\* A full tree of two levels was explored and extracted: b^d Experiences.
C5_Witness ==
    /\ pc = "done"
    /\ cfg.num_branches >= 2
    /\ cfg.depth >= 2
    /\ Len(trajectories) = Pow(cfg.num_branches, cfg.depth)

\* C6: every returned Experience carries the reward of the last step taken
\* on its path, also when max_rounds cut the branch off.
C6_RewardIsLastStepReward ==
    pc = "done" =>
        \A k \in 1..Len(trajectories) :
            k <= Len(LeafSeq) =>
                LET steps == PathSteps(LeafSeq[k])
                IN  steps # <<>> =>
                        trajectories[k].reward = nodes[steps[Len(steps)]].reward

\* C7: the Experiences are the root-to-leaf paths, one each, in depth-first
\* order with siblings as generated, and the Agent turns of each are exactly
\* the actions on its path, root to leaf.
C7_ExperiencesArePathsInOrder ==
    pc = "done" =>
        /\ Len(trajectories) = Len(LeafSeq)
        /\ \A k \in 1..Len(trajectories) :
               k <= Len(LeafSeq) =>
                   AgentTurns(trajectories[k].conversation) = PathActions(LeafSeq[k])

(***************************************************************************)
(* RLController.rollout with the default StandardReActStrategy             *)
(***************************************************************************)
\* The sizes of batch and pool a caller picks, and the max_rounds it passes
\* (RLAgent.run always passes a number).
PoolSizes == {1, 2}
RoundLimits == {0, 1}

\* What the generation capability returns in the controller's rollouts.
CtlActions == {"view hiking backpack"}

RECURSIVE SeqsUpTo(_, _)
SeqsUpTo(S, n) ==
    IF n = 0 THEN {<<>>}
    ELSE LET shorter == SeqsUpTo(S, n - 1)
         IN  shorter \cup {Append(q, x) : q \in shorter, x \in S}

\* The _rollout_one run of one requested index before it is submitted; it
\* uses task.clients[0].
NewRun(idx) ==
    [status |-> "none", idx |-> idx, pcw |-> "reset",
     conversation |-> <<>>, rounds |-> 0, reward |-> 0, done |-> FALSE,
     trajectories |-> <<>>, collected |-> FALSE]

N == Len(fut)
Running(k) == fut[k].status = "running"
Finished(k) == fut[k].status \in {"ok", "exc"}
\* A batch that takes every index still to be run.
BatchOfRest(b) == {k \in 1..N : b < k}

\* batch_idxs = task_idxs[i:i+batch_size]
BatchOf(b) == {k \in 1..N : b < k /\ k <= b + cfg.batch_size}

\* The handler without its except clause: a failed run's exception leaves
\* rollout().
CollectedUncaught(res, f) ==
    [results |-> IF f.status = "ok" THEN res \o f.trajectories ELSE res,
     raised |-> f.status = "exc"]

\* The handler putting what it collects in front.
CollectedInFront(res, f) ==
    [results |-> IF f.status = "ok" THEN f.trajectories \o res ELSE res,
     raised |-> FALSE]

\* try: results.extend(future.result()) except Exception: print(...)
Collected(res, f) ==
    [results |-> IF f.status = "ok" THEN res \o f.trajectories ELSE res,
     raised |-> FALSE]

\* rollout(): the normalisation of idxs; idxs[0] of an empty list raises.
RolloutCall ==
    /\ cpc = "call"
    /\ IF cfg.idxs = <<>>
       THEN cpc' = "raised" /\ UNCHANGED fut
       ELSE /\ fut' = [k \in 1..Len(cfg.idxs) |-> NewRun(cfg.idxs[k])]
            /\ cpc' = IF cfg.parallel THEN "submit" ELSE "seq"
    /\ UNCHANGED <<envVars, totVars, mctsVars, restVars, batch, results, storage>>

\* Parallel mode: the next batch is submitted to the executor, or the loop
\* over the batches is over and rollout() returns.
SubmitBatch ==
    /\ cpc = "submit"
    /\ IF batch >= N
       THEN cpc' = "returned" /\ UNCHANGED fut
       ELSE /\ fut' = [k \in 1..N |-> IF k \in BatchOf(batch)
                                      THEN [fut[k] EXCEPT !.status = "queued"]
                                      ELSE fut[k]]
            /\ cpc' = "collect"
    /\ UNCHANGED <<envVars, totVars, mctsVars, restVars, batch, results, storage>>

\* A pool thread takes the oldest queued run.
WorkerStart(k) ==
    /\ fut[k].status = "queued"
    /\ \A j \in 1..N : j < k => fut[j].status # "queued"
    /\ Cardinality({j \in 1..N : Running(j)}) < cfg.max_workers
    /\ fut' = [fut EXCEPT ![k].status = "running"]
    /\ UNCHANGED <<envVars, totVars, mctsVars, restVars, cpc, batch, results, storage>>

\* as_completed hands over a finished run of the batch; after the last one
\* the next batch is due.
CollectFuture(k) ==
    /\ cpc = "collect"
    /\ k \in BatchOf(batch)
    /\ Finished(k)
    /\ ~fut[k].collected
    /\ LET c == Collected(results, fut[k])
           last == \A j \in BatchOf(batch) \ {k} : fut[j].collected
       IN  /\ results' = c.results
           /\ fut' = [fut EXCEPT ![k].collected = TRUE]
           /\ IF c.raised THEN cpc' = "raised" /\ UNCHANGED batch
              ELSE IF last THEN cpc' = "submit" /\ batch' = batch + cfg.batch_size
              ELSE UNCHANGED <<cpc, batch>>
    /\ UNCHANGED <<envVars, totVars, mctsVars, restVars, storage>>

\* Sequential mode: the calling thread starts the next index itself, or the
\* loop is over and rollout() returns.
SeqStart ==
    /\ cpc = "seq"
    /\ IF batch >= N
       THEN cpc' = "returned" /\ UNCHANGED fut
       ELSE /\ fut' = [fut EXCEPT ![batch + 1].status = "running"]
            /\ cpc' = "seqrun"
    /\ UNCHANGED <<envVars, totVars, mctsVars, restVars, batch, results, storage>>

\* Sequential mode: _rollout_one has returned or raised.
SeqCollect ==
    /\ cpc = "seqrun"
    /\ Finished(batch + 1)
    /\ LET c == Collected(results, fut[batch + 1])
       IN  /\ results' = c.results
           /\ cpc' = IF c.raised THEN "raised" ELSE "seq"
    /\ fut' = [fut EXCEPT ![batch + 1].collected = TRUE]
    /\ batch' = batch + 1
    /\ UNCHANGED <<envVars, totVars, mctsVars, restVars, storage>>

\* _rollout_one: client.reset(idx)
RunReset(k) ==
    /\ Running(k)
    /\ fut[k].pcw = "reset"
    /\ \E net \in NetChoices :
         LET r == ClientReset(client, env, fut[k].idx, net)
         IN  /\ client' = r.client
             /\ env' = r.env
             /\ netFails' = CountFail(net)
    /\ fut' = [fut EXCEPT ![k].pcw = "observe"]
    /\ UNCHANGED <<cfg, totVars, mctsVars, restVars, cpc, batch, results, storage>>

\* _rollout_one: client.observe(), and StandardReActStrategy.execute up to
\* its loop.
RunObserve(k) ==
    /\ Running(k)
    /\ fut[k].pcw = "observe"
    /\ fut' = [fut EXCEPT ![k].pcw = "loop",
                          ![k].conversation =
                              conversation_start \o <<Human(ClientObserve(client))>>]
    /\ UNCHANGED <<envVars, totVars, mctsVars, restVars, cpc, batch, results, storage>>

\* The loop test letting one round too many through.
LoopOverLate(f) == f.done \/ (cfg.max_rounds # None /\ f.rounds > cfg.max_rounds)

\* The loop test without its `while not done`.
LoopOverAtLimitOnly(f) == cfg.max_rounds # None /\ f.rounds >= cfg.max_rounds

\* while not done: if max_rounds is not None and rounds >= max_rounds: break
LoopOver(f) == f.done \/ (cfg.max_rounds # None /\ f.rounds >= cfg.max_rounds)

\* One round of StandardReActStrategy.execute: generate, step, append.
RunRound(k) ==
    /\ Running(k)
    /\ fut[k].pcw = "loop"
    /\ ~LoopOver(fut[k])
    /\ \E generated_text \in cfg.utterances, net \in NetChoices :
         LET s == ClientStep(client, env, generated_text, net)
         IN  /\ client' = s.client
             /\ env' = s.env
             /\ netFails' = CountFail(net)
             /\ fut' = IF s.raised
                       THEN [fut EXCEPT ![k].status = "exc", ![k].pcw = "raised"]
                       ELSE [fut EXCEPT
                          ![k].conversation = @ \o <<Gpt(generated_text),
                                                     Human(s.out.state)>>,
                          ![k].reward = s.out.reward,
                          ![k].done = s.out.done,
                          ![k].rounds = @ + 1]
    /\ UNCHANGED <<cfg, totVars, mctsVars, restVars, cpc, batch, results, storage>>

\* A failing generate whose run stores the conversation it had reached.
RunGenerateFailsSaving(k) ==
    /\ Running(k)
    /\ fut[k].pcw = "loop"
    /\ ~LoopOver(fut[k])
    /\ fut' = [fut EXCEPT ![k].status = "exc", ![k].pcw = "raised"]
    /\ storage' = Append(storage,
                         [id |-> Len(storage) + 1, env_name |-> "shopping",
                          task_id |-> fut[k].idx, metadata |-> "{}",
                          trajectory |-> [reward |-> fut[k].reward,
                                          conversation |-> fut[k].conversation,
                                          text |-> BuildText(fut[k].conversation)]])
    /\ UNCHANGED <<envVars, totVars, mctsVars, restVars, cpc, batch, results>>

\* model.generate raises: the exception leaves execute and _rollout_one.
RunGenerateFails(k) ==
    /\ Running(k)
    /\ fut[k].pcw = "loop"
    /\ ~LoopOver(fut[k])
    /\ fut' = [fut EXCEPT ![k].status = "exc", ![k].pcw = "raised"]
    /\ UNCHANGED <<envVars, totVars, mctsVars, restVars, cpc, batch, results, storage>>

\* The metadata argument of rollout(): None or a dict.
Metadatas == {"None", "{run: 1}"}

\* Task.env_name of the task rolled out.
env_name == "shopping"

\* _save_trajectories: the dict one ExperienceOutput is stored as.
TrajectoryDict(traj) ==
    [reward |-> traj.reward,
     conversation |-> [i \in 1..Len(traj.conversation) |->
                          [from |-> traj.conversation[i].from,
                           value |-> traj.conversation[i].value,
                           loss |-> traj.conversation[i].loss]],
     text |-> traj.text]

\* Records tagged with their place in the call instead of the task index.
RECURSIVE RecordsByPosition(_, _, _)
RecordsByPosition(first, task_id, trajs) ==
    IF trajs = <<>> THEN <<>>
    ELSE <<[id |-> first, env_name |-> env_name, task_id |-> Len(trajs) - 1,
            metadata |-> IF cfg.metadata = "None" THEN "{}" ELSE cfg.metadata,
            trajectory |-> TrajectoryDict(Head(trajs))]>>
         \o RecordsByPosition(first + 1, task_id, Tail(trajs))

\* RLController._save_trajectories and FileTrajectoryStorage.save_trajectories:
\* the records of one run's trajectories (`metadata or {}`; the ids are
\* fresh, the timestamp is left out).
RECURSIVE Records(_, _, _)
Records(first, task_id, trajs) ==
    IF trajs = <<>> THEN <<>>
    ELSE <<[id |-> first, env_name |-> env_name, task_id |-> task_id,
            metadata |-> IF cfg.metadata = "None" THEN "{}" ELSE cfg.metadata,
            trajectory |-> TrajectoryDict(Head(trajs))]>>
         \o Records(first + 1, task_id, Tail(trajs))

\* StandardReActStrategy.execute leaves its loop and returns its single
\* experience; _rollout_one saves it if requested and returns it. A storage
\* error leaves _rollout_one as an exception.
RunFinish(k) ==
    /\ Running(k)
    /\ fut[k].pcw = "loop"
    /\ LoopOver(fut[k])
    /\ LET trajs == <<CreateExperienceOutput(fut[k].conversation, fut[k].reward,
                                             BuildText(fut[k].conversation))>>
           done == [fut EXCEPT ![k].trajectories = trajs]
       IN  IF cfg.save_to_storage /\ trajs # <<>>
           THEN \E written \in BOOLEAN :
                  IF written
                  THEN /\ storage' = storage \o Records(Len(storage) + 1,
                                                        fut[k].idx, trajs)
                       /\ fut' = [done EXCEPT ![k].status = "ok",
                                              ![k].pcw = "returned"]
                  ELSE /\ fut' = [done EXCEPT ![k].status = "exc",
                                              ![k].pcw = "raised"]
                       /\ UNCHANGED storage
           ELSE /\ fut' = [done EXCEPT ![k].status = "ok", ![k].pcw = "returned"]
                /\ UNCHANGED storage
    /\ UNCHANGED <<envVars, totVars, mctsVars, restVars, cpc, batch, results>>

CtlInit ==
    /\ env = EnvNew
    /\ client = ClientNew
    /\ netFails = 0
    /\ \E idxs \in SeqsUpTo(TaskIdxs, MaxTasks), parallel \in BOOLEAN,
          batch_size \in PoolSizes, max_workers \in PoolSizes,
          save \in BOOLEAN, r \in RoundLimits, metadata \in Metadatas :
          \* batch and pool of the sequential mode change nothing
          /\ ~parallel => batch_size = 1 /\ max_workers = 1
          \* metadata is only read when saving
          /\ ~save => metadata = "None"
          /\ cfg = [idxs |-> idxs, parallel |-> parallel, batch_size |-> batch_size,
                    max_workers |-> max_workers, save_to_storage |-> save,
                    max_rounds |-> r, utterances |-> CtlActions,
                    nets |-> Nets, conversation_start |-> <<>>,
                    metadata |-> metadata]
    /\ cpc = "call"
    /\ batch = 0
    /\ fut = <<>>
    /\ results = <<>>
    /\ storage = <<>>
    /\ TotIdle
    /\ MctsIdle
    /\ StoIdle
    /\ AgentIdle
    /\ CallIdle

CtlNext ==
    \/ RolloutCall
    \/ SubmitBatch
    \/ SeqStart
    \/ SeqCollect
    \/ \E k \in 1..N : WorkerStart(k)
    \/ \E k \in 1..N : CollectFuture(k)
    \/ \E k \in 1..N : RunReset(k)
    \/ \E k \in 1..N : RunObserve(k)
    \/ \E k \in 1..N : RunRound(k)
    \/ \E k \in 1..N : RunGenerateFails(k)
    \/ \E k \in 1..N : RunFinish(k)

SpecCtl == CtlInit /\ [][CtlNext]_vars

(***************************************************************************)
(* StandardReActStrategy: one index rolled out by the calling thread       *)
(***************************************************************************)
ReActInit ==
    /\ env = EnvNew
    /\ client = ClientNew
    /\ netFails = 0
    /\ \E idx \in TaskIdxs, r \in 0..MaxReActRounds, cs \in ConversationStarts :
          cfg = [idxs |-> <<idx>>, parallel |-> FALSE, batch_size |-> 1,
                 max_workers |-> 1, save_to_storage |-> FALSE,
                 max_rounds |-> r, utterances |-> Actions, nets |-> NetsAll,
                 conversation_start |-> cs, metadata |-> "None"]
    /\ cpc = "call"
    /\ batch = 0
    /\ fut = <<>>
    /\ results = <<>>
    /\ storage = <<>>
    /\ TotIdle
    /\ MctsIdle
    /\ StoIdle
    /\ AgentIdle
    /\ CallIdle

ReActNext ==
    \/ RolloutCall
    \/ SeqStart
    \/ SeqCollect
    \/ \E k \in 1..N : RunReset(k)
    \/ \E k \in 1..N : RunObserve(k)
    \/ \E k \in 1..N : RunRound(k)
    \/ \E k \in 1..N : RunGenerateFails(k)
    \/ \E k \in 1..N : RunFinish(k)

SpecReAct == ReActInit /\ [][ReActNext]_vars

(***************************************************************************)
(* Properties of the controller                                            *)
(***************************************************************************)
RECURSIVE Count(_, _)
Count(q, e) ==
    IF q = <<>> THEN 0
    ELSE (IF Head(q) = e THEN 1 ELSE 0) + Count(Tail(q), e)

\* How often e is among the trajectories of the runs 1..n that satisfy the
\* given status set.
RECURSIVE Computed(_, _, _)
Computed(n, statuses, e) ==
    IF n = 0 THEN 0
    ELSE (IF fut[n].status \in statuses THEN Count(fut[n].trajectories, e) ELSE 0)
         + Computed(n - 1, statuses, e)

AllExperiences ==
    Range(results) \cup UNION {Range(fut[k].trajectories) : k \in 1..N}

\* C1: in parallel mode a rollout's client is its own: from its reset on and
\* while it runs, the client it works on still carries the index it was reset
\* to, whatever the other workers do.
C1_WorkersUseOwnClient ==
    \A k \in 1..N :
        Running(k) /\ fut[k].pcw # "reset" => client.current_idx = fut[k].idx

\* C2: a failed index is caught and left out, and aborts nothing: rollout()
\* does not raise because a run raised, and what it returns holds exactly the
\* experiences of the runs that succeeded.
C2_FailuresAreIsolated ==
    /\ cpc = "raised" => \A k \in 1..N : fut[k].status # "exc"
    /\ cpc = "returned" =>
           \A e \in AllExperiences : Count(results, e) = Computed(N, {"ok"}, e)

\* rollout() returned the experience of one index although another failed.
C2_Witness ==
    /\ cpc = "returned"
    /\ \E k, j \in 1..N : fut[k].status = "exc" /\ fut[j].status = "ok"
    /\ results # <<>>

\* C3: a failed save loses nothing: every experience a run computed is
\* returned by rollout(), also when persisting it raised.
C3_FailedSaveKeepsExperiences ==
    cpc = "returned" =>
        \A e \in AllExperiences : Count(results, e) >= Computed(N, {"ok", "exc"}, e)

(***************************************************************************)
(* MCTSStrategy                                                            *)
(***************************************************************************)
\* for _ in range(5): the candidate actions generated per search
NumCandidates == 5
\* while not done and sim_rounds < 5: the simulation depth
MaxSimDepth == 5

\* The num_simulations the strategy is built with, and what the model utters.
SimulationBudgets == {1, 4, 5, 10}
MctsActions == {"view hiking backpack", "buy"}

\* self.num_simulations // len(candidate_actions)
SimsPerCandidate == cfg.num_simulations \div NumCandidates

\* d[key] = val on a dict, which keeps its keys in insertion order.
DictSet(d, key, val) ==
    IF \E k \in 1..Len(d) : d[k].key = key
    THEN [k \in 1..Len(d) |->
              IF d[k].key = key THEN [key |-> key, val |-> val] ELSE d[k]]
    ELSE Append(d, [key |-> key, val |-> val])

\* A quotient num / den with den > 0, and the order of two of them.
Less(x, y) == x.num * y.den < y.num * x.den

\* The search answering with an action a simulation generated.
BestActionOrSimulated(sr) ==
    IF sr.simulated \ Range(sr.candidate_actions) # {}
    THEN CHOOSE a \in sr.simulated : a \notin Range(sr.candidate_actions)
    ELSE sr.action_scores[1].key

\* max(action_scores.items(), key=lambda x: x[1])[0]: the first item that no
\* item exceeds.
BestAction(sr) ==
    LET d == sr.action_scores
        k == CHOOSE k \in 1..Len(d) :
                 /\ \A j \in 1..Len(d) : ~Less(d[k].val, d[j].val)
                 /\ \A j \in 1..(k - 1) : Less(d[j].val, d[k].val)
    IN  d[k].key

NoSim == [active |-> FALSE, client |-> ClientNew, sim_reward |-> 0,
          done |-> FALSE, sim_rounds |-> 0]

\* _run_mcts entered with a copy of the client and its candidates generated.
\* simulated and tally record what the simulations of the round did: the
\* actions generated inside them, and per candidate action the sum of the
\* end-of-simulation rewards and the number of simulations run for it.
NewSearch(cl, cands) ==
    [client |-> cl, candidate_actions |-> cands, ci |-> 1, sims |-> 0,
     total_reward |-> 0, action_scores |-> <<>>, sim |-> NoSim,
     simulated |-> {},
     tally |-> [a \in MctsActions |-> [sum |-> 0, cnt |-> 0]],
     best_action |-> ""]

\* A simulation whose loop has no depth limit.
AfterSimStepUnlimited(sr, sm) ==
    IF ~sm.done
    THEN [sr EXCEPT !.sim = sm]
    ELSE LET a == sr.candidate_actions[sr.ci]
         IN  [sr EXCEPT !.sim = NoSim,
                        !.total_reward = @ + sm.sim_reward,
                        !.sims = @ + 1,
                        !.tally[a] = [sum |-> @.sum + sm.sim_reward,
                                      cnt |-> @.cnt + 1]]

\* The simulation after one of its steps: it goes on while not done and
\* sim_rounds < 5, else total_reward += sim_reward closes it.
AfterSimStep(sr, sm) ==
    IF ~sm.done /\ sm.sim_rounds < MaxSimDepth
    THEN [sr EXCEPT !.sim = sm]
    ELSE LET a == sr.candidate_actions[sr.ci]
         IN  [sr EXCEPT !.sim = NoSim,
                        !.total_reward = @ + sm.sim_reward,
                        !.sims = @ + 1,
                        !.tally[a] = [sum |-> @.sum + sm.sim_reward,
                                      cnt |-> @.cnt + 1]]

\* execute(): the conversation is opened with the initial observation.
MctsExecute ==
    /\ mpc = "start"
    /\ mcts' = [conversation |-> conversation_start \o <<Human(ClientObserve(client))>>,
                rounds |-> 0, reward |-> 0, done |-> FALSE, trajectories |-> <<>>]
    /\ mpc' = "loop"
    /\ UNCHANGED <<envVars, totVars, ctlVars, restVars, search>>

\* The loop goes on: _run_mcts(client=copy.deepcopy(client)) generates its
\* candidate actions.
MctsRunSearch ==
    /\ mpc = "loop"
    /\ ~LoopOver(mcts)
    /\ \E cands \in [1..NumCandidates -> MctsActions] :
           search' = NewSearch(client, cands)
    /\ mpc' = "search"
    /\ UNCHANGED <<envVars, totVars, ctlVars, restVars, mcts>>

\* A simulation begins: sim_client = copy.deepcopy(client) takes the
\* candidate action.
MctsSimStart ==
    /\ mpc = "search"
    /\ search.ci <= NumCandidates
    /\ ~search.sim.active
    /\ search.sims < SimsPerCandidate
    /\ \E net \in NetChoices :
           LET r == ClientStep(search.client, env,
                               search.candidate_actions[search.ci], net)
               sm == [active |-> TRUE, client |-> r.client,
                      sim_reward |-> r.out.reward, done |-> r.out.done,
                      sim_rounds |-> 0]
           IN  /\ env' = r.env
               /\ netFails' = CountFail(net)
               /\ search' = AfterSimStep(search, sm)
    /\ UNCHANGED <<client, cfg, totVars, ctlVars, restVars, mpc, mcts>>

\* One pass of the simulation loop: an action is generated and taken.
MctsSimStep ==
    /\ mpc = "search"
    /\ search.sim.active
    /\ \E sim_action \in MctsActions, net \in NetChoices :
           LET r == ClientStep(search.sim.client, env, sim_action, net)
               sm == [active |-> TRUE, client |-> r.client,
                      sim_reward |-> r.out.reward, done |-> r.out.done,
                      sim_rounds |-> search.sim.sim_rounds + 1]
           IN  /\ env' = r.env
               /\ netFails' = CountFail(net)
               /\ search' = AfterSimStep(
                      [search EXCEPT !.simulated = @ \cup {sim_action}], sm)
    /\ UNCHANGED <<client, cfg, totVars, ctlVars, restVars, mpc, mcts>>

\* The simulations of a candidate are over:
\* action_scores[action] = total_reward / (num_simulations // 5), which
\* raises ZeroDivisionError when the divisor is 0.
MctsScore ==
    /\ mpc = "search"
    /\ search.ci <= NumCandidates
    /\ ~search.sim.active
    /\ search.sims >= SimsPerCandidate
    /\ IF SimsPerCandidate = 0
       THEN mpc' = "raised" /\ UNCHANGED search
       ELSE /\ search' = [search EXCEPT
                    !.action_scores = DictSet(@, search.candidate_actions[search.ci],
                                              [num |-> search.total_reward,
                                               den |-> SimsPerCandidate]),
                    !.ci = @ + 1, !.sims = 0, !.total_reward = 0]
            /\ UNCHANGED mpc
    /\ UNCHANGED <<envVars, totVars, ctlVars, restVars, mcts>>

\* _run_mcts returns its best action, which execute() commits: it is appended
\* to the conversation and taken on the client.
MctsCommit ==
    /\ mpc = "search"
    /\ search.ci > NumCandidates
    /\ \E net \in NetChoices :
           LET best_action == BestAction(search)
               r == ClientStep(client, env, best_action, net)
           IN  /\ env' = r.env
               /\ client' = r.client
               /\ netFails' = CountFail(net)
               /\ search' = [search EXCEPT !.best_action = best_action]
               /\ mcts' = [mcts EXCEPT
                      !.conversation = @ \o <<Gpt(best_action), Human(r.out.state)>>,
                      !.reward = r.out.reward, !.done = r.out.done,
                      !.rounds = @ + 1]
    /\ mpc' = "loop"
    /\ UNCHANGED <<cfg, totVars, ctlVars, restVars>>

\* The loop is over: one experience is returned.
MctsReturn ==
    /\ mpc = "loop"
    /\ LoopOver(mcts)
    /\ mcts' = [mcts EXCEPT !.trajectories =
                   <<CreateExperienceOutput(mcts.conversation, mcts.reward,
                                            BuildText(mcts.conversation))>>]
    /\ mpc' = "done"
    /\ UNCHANGED <<envVars, totVars, ctlVars, restVars, search>>

MctsInit ==
    /\ \E idx \in TaskIdxs : AfterReset(idx)
    /\ \E n \in SimulationBudgets, r \in {None} \cup RoundLimits :
           cfg = [max_rounds |-> r, num_simulations |-> n, nets |-> Nets,
                  conversation_start |-> <<>>]
    /\ netFails = 0
    /\ mpc = "start"
    /\ mcts = <<>>
    /\ search = <<>>
    /\ TotIdle
    /\ CtlIdle
    /\ StoIdle
    /\ AgentIdle
    /\ CallIdle

MctsNext ==
    \/ MctsExecute
    \/ MctsRunSearch
    \/ MctsSimStart
    \/ MctsSimStep
    \/ MctsScore
    \/ MctsCommit
    \/ MctsReturn

SpecMCTS == MctsInit /\ [][MctsNext]_vars

(***************************************************************************)
(* Properties of MCTSStrategy                                              *)
(***************************************************************************)
\* A round has been committed and no later search has begun.
Committed == mpc \in {"loop", "done"} /\ mcts.rounds > 0

\* The action of the last committed round, as the conversation holds it.
CommittedAction == mcts.conversation[Len(mcts.conversation) - 1].value

\* Where an action was first generated among the candidates.
FirstAt(a) ==
    CHOOSE k \in 1..NumCandidates :
        /\ search.candidate_actions[k] = a
        /\ \A j \in 1..(k - 1) : search.candidate_actions[j] # a

\* The mean simulated reward of a candidate action: the sum of its
\* end-of-simulation rewards over the number of simulations run for it.
Mean(a) == [num |-> search.tally[a].sum, den |-> search.tally[a].cnt]

\* C8: with any num_simulations >= 1 and a finite max_rounds the strategy
\* never raises, and what it returns is exactly one experience, whose Agent
\* turns are the committed rounds.
C8_CompletesWithOneExperience ==
    cfg.max_rounds # None =>
        /\ mpc # "raised"
        /\ mpc = "done" =>
               /\ Len(mcts.trajectories) = 1
               /\ Len(AgentTurns(mcts.trajectories[1].conversation)) = mcts.rounds

\* C9: the action committed in a round is one of the candidate actions
\* generated in that round, never an action that only a simulation generated.
C9_CommittedIsCandidate ==
    Committed => CommittedAction \in Range(search.candidate_actions)

\* A round was committed whose simulations generated an action that is none
\* of its candidates.
C9_Witness ==
    /\ Committed
    /\ search.simulated \ Range(search.candidate_actions) # {}

\* C10: the committed action has the maximal mean simulated reward among the
\* round's candidates, and among those of maximal mean it is the one
\* generated first.
C10_CommittedHasMaximalMean ==
    Committed =>
        \A a \in Range(search.candidate_actions) :
            /\ ~Less(Mean(CommittedAction), Mean(a))
            /\ ~Less(Mean(a), Mean(CommittedAction))
                   => FirstAt(CommittedAction) <= FirstAt(a)

\* C11: simulations run on isolated copies: as long as no request failed,
\* the server's environment is the one the reset and the committed actions
\* alone produce, whatever the simulations of the rounds did.
C11_SimulationsAreIsolated ==
    mpc \in {"loop", "search", "done"} /\ netFails = 0 =>
        env = Replay(client.current_idx, AgentTurns(mcts.conversation))

(***************************************************************************)
(* Properties of StandardReActStrategy                                     *)
(***************************************************************************)
\* The strategy of run k has returned.
Completed(k) == fut[k].trajectories # <<>>

\* The turns of a conversation after conversation_start and the initial
\* observation.
TurnsAfterInitial(conv) == SubSeq(conv, Len(conversation_start) + 2, Len(conv))

\* The turns come in pairs, an Agent turn followed by a Human turn.
InPairs(turns) ==
    /\ Len(turns) % 2 = 0
    /\ \A i \in 1..Len(turns) :
           turns[i].from = IF i % 2 = 1 THEN "gpt" ELSE "human"

\* C12: a completed Sequential rollout did at most max_rounds rounds, and
\* after the initial observation its conversation holds one Agent turn and
\* one Human turn per round.
C12_RoundsAndTurnPairs ==
    \A k \in 1..N :
        Completed(k) =>
            LET turns == TurnsAfterInitial(fut[k].trajectories[1].conversation)
            IN  /\ cfg.max_rounds # None => fut[k].rounds <= cfg.max_rounds
                /\ InPairs(turns)
                /\ Len(turns) = 2 * fut[k].rounds

\* A rollout completed at its round limit after two rounds.
C12_Witness ==
    \E k \in 1..N :
        /\ Completed(k)
        /\ fut[k].rounds = cfg.max_rounds
        /\ fut[k].rounds >= 2
        /\ ~fut[k].done

\* The rollout is to stop: a step reported done or the limit is reached.
ShouldStop(f) == f.done \/ (cfg.max_rounds # None /\ f.rounds >= cfg.max_rounds)

\* C13: a Sequential rollout stops at the first of done and the round limit:
\* once either holds no further round is made and the strategy does not
\* raise, and before that it does not return.
C13_StopsAtDoneOrLimit ==
    [][\A k \in 1..N :
           fut[k].pcw = "loop" =>
               /\ ShouldStop(fut[k]) =>
                      /\ fut'[k].rounds = fut[k].rounds
                      /\ fut'[k].conversation = fut[k].conversation
                      /\ fut'[k].pcw # "raised"
               /\ ~ShouldStop(fut[k]) => ~Completed(k)']_vars

\* A rollout returned after a step reported done before the round limit.
C13_Witness ==
    \E k \in 1..N :
        /\ Completed(k)
        /\ fut[k].status = "ok"
        /\ fut[k].done
        /\ cfg.max_rounds # None
        /\ fut[k].rounds < cfg.max_rounds

\* The reward the environment gives for the last of the given actions when
\* they are taken in order from a fresh episode of task idx.
LastStepReward(idx, acts) ==
    EnvStep(Replay(idx, SubSeq(acts, 1, Len(acts) - 1)), acts[Len(acts)]).reward

\* C14: a Sequential rollout returns exactly one experience; its reward is
\* the reward of the last step call, and 0.0 when no round was made.
C14_OneExperienceWithLastReward ==
    \A k \in 1..N :
        Completed(k) =>
            LET exp == fut[k].trajectories[1]
                acts == AgentTurns(TurnsAfterInitial(exp.conversation))
                conv == exp.conversation
            IN  /\ Len(fut[k].trajectories) = 1
                /\ acts = <<>> => exp.reward = 0
                /\ acts # <<>> /\ netFails = 0 =>
                       exp.reward = LastStepReward(fut[k].idx, acts)
                /\ acts # <<>> /\ conv[Len(conv)].value = ErrorState =>
                       exp.reward = 0

\* The environment reported done with a reward in the second round: one
\* experience with that reward and four turns after the initial one.
C14_Witness ==
    \E k \in 1..N :
        /\ Completed(k)
        /\ netFails = 0
        /\ fut[k].rounds = 2
        /\ fut[k].done
        /\ fut[k].trajectories[1].reward = 90
        /\ Len(TurnsAfterInitial(fut[k].trajectories[1].conversation)) = 4

\* The last turn of a conversation.
LastTurn(conv) == conv[Len(conv)]

\* Run k makes a round in this step, and the request of its step call is
\* not answered: it fails on the way, times out, or the server answers with
\* an error status.
StepFails(k) ==
    /\ fut[k].pcw = "loop"
    /\ ~ShouldStop(fut[k])
    /\ fut'[k] # fut[k]
    /\ \/ netFails' > netFails
       \/ /\ Len(fut'[k].conversation) = Len(fut[k].conversation) + 2
          /\ EnvStep(env, fut'[k].conversation[Len(fut[k].conversation) + 1].value).raised

\* C15: step never lets a failure of the remote call out: it returns a
\* StepOutput with done, reward 0.0 and a diagnostic state, which the
\* rollout appends, and the rollout's loop then ends normally: its next
\* step is the strategy returning its experience.
C15_StepFailureIsTerminalOutput ==
    [][\A k \in 1..N :
           /\ StepFails(k) =>
                  /\ fut'[k].status = "running"
                  /\ fut'[k].rounds = fut[k].rounds + 1
                  /\ fut'[k].done
                  /\ fut'[k].reward = 0
                  /\ LastTurn(fut'[k].conversation) = Human(ErrorState)
           /\ /\ fut[k].pcw = "loop"
              /\ fut[k].rounds > 0
              /\ LastTurn(fut[k].conversation) = Human(ErrorState)
              /\ fut'[k] # fut[k]
              => Completed(k)' /\ fut'[k].status = "ok"]_vars

\* A rollout returned normally whose last step was served by the server but
\* not answered in time.
C15_Witness ==
    \E k \in 1..N :
        /\ fut[k].status = "ok"
        /\ fut[k].rounds > 0
        /\ LastTurn(fut[k].conversation) = Human(ErrorState)
        /\ env.steps = fut[k].rounds
        /\ netFails = 1

(***************************************************************************)
(* Properties of the client inside rollouts                                *)
(***************************************************************************)
\* The reset call of run k is made in this step and its request fails.
ResetFails(k) ==
    /\ fut[k].pcw = "reset"
    /\ fut'[k].pcw # "reset"
    /\ netFails' > netFails

\* C16: a reset whose remote call cannot complete raises nothing and leaves
\* the client observable: observe() returns the error message, not what the
\* client held before, and current_idx is the requested index.
C16_FailedResetIsObservable ==
    [][\A k \in 1..N :
           ResetFails(k) =>
               /\ fut'[k].status = "running"
               /\ fut'[k].pcw = "observe"
               /\ ClientObserve(client') = ErrorState
               /\ client'.current_idx = fut[k].idx]_vars

\* The reset of a later index failed after an earlier rollout had ended with
\* a state of its episode, which the client no longer shows.
C16_Witness ==
    \E k \in 2..N :
        /\ ~cfg.parallel
        /\ fut[k].pcw = "observe"
        /\ ClientObserve(client) = ErrorState
        /\ fut[k - 1].status = "ok"
        /\ fut[k - 1].rounds > 0
        /\ LastTurn(fut[k - 1].conversation) # Human(ErrorState)
        /\ fut[k].idx # fut[k - 1].idx

\* The initial observation of a run, once it has observed.
InitialObservation(k) == fut[k].conversation[Len(conversation_start) + 1]

\* C17: a rollout whose reset failed ends with the diagnostic state: no
\* generation and no step follows for that index.
C17_NoRoundAfterFailedReset ==
    \A k \in 1..N :
        /\ fut[k].conversation # <<>>
        /\ InitialObservation(k) = Human(ErrorState)
        => fut[k].rounds = 0

\* C18: every step request of the rollout of index i carries idx = i.
C18_StepRequestsCarryOwnIdx ==
    [][\A k \in 1..N :
           /\ fut[k].pcw = "loop"
           /\ fut'[k].rounds = fut[k].rounds + 1
           => \E a \in cfg.utterances : StepRequest(client, a).idx = fut[k].idx]_vars

(***************************************************************************)
(* The beginning of returned conversations                                 *)
(***************************************************************************)
\* conv begins with the client's conversation_start, in order, followed by
\* the observation as a Human turn.
BeginsWith(conv, observation) ==
    /\ Len(conv) >= Len(conversation_start) + 1
    /\ SubSeq(conv, 1, Len(conversation_start)) = conversation_start
    /\ conv[Len(conversation_start) + 1] = Human(observation)

\* C19: the conversation of every returned experience begins with the
\* client's conversation_start followed by the initial observation as a
\* Human turn (here for the Tree-Exploring strategy, whose client keeps the
\* initial observation while its copies are stepped).
C19_ConversationBeginsWithStart ==
    \A i \in 1..Len(trajectories) :
        BeginsWith(trajectories[i].conversation, ClientObserve(client))

(***************************************************************************)
(* What rollout() persists                                                 *)
(***************************************************************************)
\* The record an experience of the rollout of index i is to be stored as,
\* but for its id.
Tagged(i, e) ==
    [env_name |-> env_name, task_id |-> i,
     metadata |-> IF cfg.metadata = "None" THEN "{}" ELSE cfg.metadata,
     trajectory |-> [reward |-> e.reward, conversation |-> e.conversation,
                     text |-> e.text]]

\* A stored record without its id.
Untagged(rec) == [f \in DOMAIN rec \ {"id"} |-> rec[f]]

\* How many stored records are the given one.
StoredCount(t) == Cardinality({j \in 1..Len(storage) : Untagged(storage[j]) = t})

\* How many experiences of the returned runs 1..n are to be stored as the
\* given record.
RECURSIVE YieldedCount(_, _)
YieldedCount(n, t) ==
    IF n = 0 THEN 0
    ELSE (IF fut[n].status = "ok"
          THEN Cardinality({j \in 1..Len(fut[n].trajectories) :
                               Tagged(fut[n].idx, fut[n].trajectories[j]) = t})
          ELSE 0)
         + YieldedCount(n - 1, t)

RECURSIVE YieldedTotal(_)
YieldedTotal(n) ==
    IF n = 0 THEN 0
    ELSE (IF fut[n].status = "ok" THEN Len(fut[n].trajectories) ELSE 0)
         + YieldedTotal(n - 1)

Min(a, b) == IF a <= b THEN a ELSE b

\* C21: parallelism is bounded: never more than min(max_workers, batch_size)
\* rollouts run at the same time.
C21_ParallelismIsBounded ==
    cfg.parallel =>
        Cardinality({k \in 1..N : Running(k)}) <= Min(cfg.max_workers, cfg.batch_size)

\* Two rollouts of one batch run at the same time.
C21_Witness ==
    /\ cfg.parallel
    /\ Cardinality({k \in 1..N : Running(k)}) = 2
    /\ Min(cfg.max_workers, cfg.batch_size) = 2

\* The experiences of the returned runs 1..n, in the order of the indices.
RECURSIVE InSubmissionOrder(_)
InSubmissionOrder(n) ==
    IF n = 0 THEN <<>>
    ELSE InSubmissionOrder(n - 1)
         \o (IF fut[n].status = "ok" THEN fut[n].trajectories ELSE <<>>)

\* C22: in sequential mode the experiences are returned in submission
\* order, those of failed indices being absent.
C22_SequentialKeepsSubmissionOrder ==
    ~cfg.parallel /\ cpc = "returned" => results = InSubmissionOrder(N)

\* A sequential rollout() returned the experiences of two different indices.
C22_Witness ==
    /\ ~cfg.parallel
    /\ cpc = "returned"
    /\ Len(results) >= 2
    /\ results[1] # results[2]


(***************************************************************************)
(* Trajectory storage                                                      *)
(*                                                                         *)
(* A FileTrajectoryStorage and a MongoDBTrajectoryStorage are given the    *)
(* same trajectories: every save_trajectories call is made on both with    *)
(* the same arguments. The reads are made on either.                      *)
(***************************************************************************)
\* The records the saves of one behaviour write at most.
MaxStored == 2

\* The save_trajectories calls of one behaviour.
SaveCalls == {1, 2}

\* The callers of save_trajectories that may be under way at a time.
Savers == {1, 2}

\* Trajectory dicts as RLController._save_trajectories builds them.
StoredTrajectory(n) ==
    IF n = 1
    THEN TrajectoryDict(CreateExperienceOutput(<<Human(initial_state(0))>>, 0,
                            BuildText(<<Human(initial_state(0))>>)))
    ELSE TrajectoryDict(CreateExperienceOutput(
                            <<Human(initial_state(1)), Gpt("buy")>>, 100 - StepPenalty,
                            BuildText(<<Human(initial_state(1)), Gpt("buy")>>)))

\* The arguments of the save_trajectories calls: lists of equal and of
\* unequal lengths, of either environment, with and without metadata.
SaveArgs ==
    {[env_name |-> "shopping", task_ids |-> <<0>>,
      trajectories |-> <<StoredTrajectory(1)>>, metadata |-> "None"],
     [env_name |-> "webshop", task_ids |-> <<1>>,
      trajectories |-> <<StoredTrajectory(2)>>, metadata |-> "{run: 1}"],
     [env_name |-> "shopping", task_ids |-> <<0, 1>>,
      trajectories |-> <<StoredTrajectory(1), StoredTrajectory(2)>>,
      metadata |-> "{run: 1}"],
     [env_name |-> "shopping", task_ids |-> <<0>>,
      trajectories |-> <<StoredTrajectory(1), StoredTrajectory(2)>>,
      metadata |-> "None"],
     [env_name |-> "webshop", task_ids |-> <<>>, trajectories |-> <<>>,
      metadata |-> "None"]}

\* zip(task_ids, trajectories): it stops at the end of the shorter list.
Zip(task_ids, trajs) ==
    [i \in 1..Min(Len(task_ids), Len(trajs)) |-> <<task_ids[i], trajs[i]>>]

\* `metadata or {}`.
MetadataOr(metadata) == IF metadata = "None" THEN "{}" ELSE metadata

\* json.dump: None is written as null and True as true.
JsonDump(rec) ==
    LET conv == rec.trajectory.conversation
        out == [i \in 1..Len(conv) |->
                   [conv[i] EXCEPT !.loss = IF conv[i].loss = "None" THEN "null"
                                            ELSE "true"]]
    IN  [rec EXCEPT !.trajectory.conversation = out]

\* A reader that hands out the JSON values as they are written.
JsonLoadRaw(text) == text

\* json.load: null is read as None and true as True.
JsonLoad(text) ==
    LET conv == text.trajectory.conversation
        out == [i \in 1..Len(conv) |->
                   [conv[i] EXCEPT !.loss = IF conv[i].loss = "null" THEN "None"
                                            ELSE "True"]]
    IN  [text EXCEPT !.trajectory.conversation = out]

\* No get_trajectory or get_trajectories call has just returned.
NoRead == [op |-> "none"]

\* A save_trajectories call that has not been made.
NoSave == [pcs |-> "idle"]

\* The pairs the loop of the call of w goes through.
Pairs(w) == Zip(saver[w].task_ids, saver[w].trajectories)

\* The records the calls under way have yet to write.
RECURSIVE Pending(_)
Pending(S) ==
    IF S = {} THEN 0
    ELSE LET w == CHOOSE x \in S : TRUE
         IN  (IF saver[w].pcs = "idle" THEN 0 ELSE Len(Pairs(w)) - saver[w].i)
             + Pending(S \ {w})

\* save_trajectories is called: the file backend makes env_dir, both start
\* with empty id lists.
SaveCall(w) ==
    /\ saver[w].pcs = "idle"
    /\ Len(returned) + Cardinality({x \in Savers : saver[x].pcs # "idle"}) < Cardinality(SaveCalls)
    /\ \E a \in SaveArgs :
          /\ Len(files) + Pending(Savers) + Len(Zip(a.task_ids, a.trajectories))
                 <= MaxStored
          /\ saver' = [saver EXCEPT ![w] =
                          [pcs |-> "loop", env_name |-> a.env_name,
                           task_ids |-> a.task_ids,
                           trajectories |-> a.trajectories,
                           metadata |-> a.metadata, i |-> 0,
                           file_ids |-> <<>>, mongo_ids |-> <<>>,
                           documents |-> <<>>]]
    /\ ret' = NoRead
    /\ UNCHANGED <<envVars, totVars, ctlVars, mctsVars, agentVars, callVars,
                   files, docs, clock, uuids, returned>>

\* The record one iteration of either loop builds.
TrajectoryWithMeta(w, id, timestamp) ==
    LET pair == Pairs(w)[saver[w].i + 1]
    IN  [id |-> id, env_name |-> saver[w].env_name, task_id |-> pair[1],
         timestamp |-> timestamp, metadata |-> MetadataOr(saver[w].metadata),
         trajectory |-> pair[2]]

\* One iteration of both loops up to open(file_path, "w"): each backend
\* draws its id and reads the time, the file backend creates the file, the
\* MongoDB backend appends its document to the list it will insert.
SaveOpen(w) ==
    /\ saver[w].pcs = "loop"
    /\ saver[w].i < Len(Pairs(w))
    /\ \E tick \in {0, 1} :
          LET file_id == uuids + 1
              mongo_id == uuids + 2
              document == ("_id" :> mongo_id)
                          @@ TrajectoryWithMeta(w, mongo_id, clock + tick)
          IN  /\ clock' = clock + tick
              /\ uuids' = uuids + 2
              /\ files' = Append(files, [dir |-> saver[w].env_name,
                                         name |-> file_id, content |-> <<>>])
              /\ saver' = [saver EXCEPT
                              ![w].pcs = "dump",
                              ![w].file_ids = Append(@, file_id),
                              ![w].mongo_ids = Append(@, mongo_id),
                              ![w].documents = Append(@, document)]
    /\ ret' = NoRead
    /\ UNCHANGED <<envVars, totVars, ctlVars, mctsVars, agentVars, callVars,
                   docs, returned>>

\* A writer that writes into the oldest file of storage_dir.
OpenFileFirst(w) == 1

\* The file the call of w has open.
OpenFile(w) == CHOOSE j \in 1..Len(files) :
                  files[j].name = saver[w].file_ids[Len(saver[w].file_ids)]

\* json.dump writes the record and the file is closed.
SaveDump(w) ==
    /\ saver[w].pcs = "dump"
    /\ LET j == OpenFile(w)
           rec == TrajectoryWithMeta(w, files[j].name,
                                     saver[w].documents[saver[w].i + 1].timestamp)
       IN  files' = [files EXCEPT ![j].content = <<JsonDump(rec)>>]
    /\ saver' = [saver EXCEPT ![w].pcs = "loop", ![w].i = @ + 1]
    /\ ret' = NoRead
    /\ UNCHANGED <<envVars, totVars, ctlVars, mctsVars, agentVars, callVars,
                   docs, clock, uuids, returned>>

\* Both loops are over: insert_many, unless there is no document, and both
\* calls return their ids.
SaveReturn(w) ==
    /\ saver[w].pcs = "loop"
    /\ saver[w].i = Len(Pairs(w))
    /\ docs' = docs \o saver[w].documents
    /\ returned' = Append(returned, [env_name |-> saver[w].env_name,
                                     task_ids |-> saver[w].task_ids,
                                     trajectories |-> saver[w].trajectories,
                                     metadata |-> saver[w].metadata,
                                     file_ids |-> saver[w].file_ids,
                                     mongo_ids |-> saver[w].mongo_ids])
    /\ saver' = [saver EXCEPT ![w] = NoSave]
    /\ ret' = NoRead
    /\ UNCHANGED <<envVars, totVars, ctlVars, mctsVars, agentVars, callVars,
                   files, clock, uuids>>


\* FileTrajectoryStorage.get_trajectory: the file <id>.json of some
\* directory of storage_dir, read by json.load, None if there is none. A
\* file that is open for writing holds no JSON document and json.load
\* raises.
FileGet(id) ==
    LET hits == {j \in 1..Len(files) : files[j].name = id}
    IN  IF hits = {} THEN [raised |-> FALSE, out |-> <<>>]
        ELSE LET j == CHOOSE x \in hits : TRUE
             IN  IF files[j].content = <<>> THEN [raised |-> TRUE, out |-> <<>>]
                 ELSE [raised |-> FALSE, out |-> <<JsonLoad(files[j].content[1])>>]

\* MongoDBTrajectoryStorage.get_trajectory: find_one({"_id": id}).
MongoGet(id) ==
    LET hits == {j \in 1..Len(docs) : docs[j]["_id"] = id}
    IN  IF hits = {} THEN [raised |-> FALSE, out |-> <<>>]
        ELSE [raised |-> FALSE, out |-> <<docs[CHOOSE x \in hits : TRUE]>>]

\* The arguments of get_trajectories.
Limits == {0, 2}
Offsets == {0, 1}
SortBys == {"timestamp", "task_id", "score"}
SortOrders == {"asc", "desc"}
ListParams ==
    [env_name : {"None", "shopping"}, task_id : {None, 0}, limit : Limits,
     offset : Offsets, sort_by : SortBys, sort_order : SortOrders]

\* The orders a set can be listed in.
Orders(S) ==
    {q \in [1..Cardinality(S) -> S] :
        \A i, j \in 1..Cardinality(S) : i # j => q[i] # q[j]}

\* Whether record a sorts strictly before record b: the keys are
\* x.get(sort_by, ""), compared downwards when reverse is set. Records
\* without the field all have the key "".
Before(a, b, sort_by, reverse) ==
    /\ sort_by \in DOMAIN a
    /\ IF reverse THEN b[sort_by] < a[sort_by] ELSE a[sort_by] < b[sort_by]

\* list.sort(key=..., reverse=...): a stable sort, records with equal keys
\* stay in the order they were in.
RECURSIVE ListSort(_, _, _)
ListSort(q, sort_by, reverse) ==
    IF q = <<>> THEN <<>>
    ELSE LET front == ListSort(SubSeq(q, 1, Len(q) - 1), sort_by, reverse)
             x == q[Len(q)]
             k == Cardinality({i \in 1..Len(front) :
                                  ~Before(x, front[i], sort_by, reverse)})
         IN  SubSeq(front, 1, k) \o <<x>> \o SubSeq(front, k + 1, Len(front))

\* q[offset:offset + limit]
Slice(q, offset, limit) == SubSeq(q, offset + 1, Min(Len(q), offset + limit))

\* FileTrajectoryStorage.get_trajectories: the possible results. The
\* directories (all of them unless env_name is given) and the files of each
\* are visited in the order os.listdir yields them, which is arbitrary;
\* every file is read by json.load; the records of another task_id are
\* passed over; the list is sorted and sliced.
FileList(p) ==
    LET chosen == {j \in 1..Len(files) :
                      p.env_name = "None" \/ files[j].dir = p.env_name}
        listdir == {q \in Orders(chosen) :
                       \A i, j, k \in 1..Len(q) :
                           i < j /\ j < k /\ files[q[i]].dir = files[q[k]].dir
                               => files[q[j]].dir = files[q[i]].dir}
        Keep(rec) == p.task_id = None \/ rec.task_id = p.task_id
        Read(q) == [i \in 1..Len(q) |-> JsonLoad(files[q[i]].content[1])]
    IN  IF \E j \in chosen : files[j].content = <<>>
        THEN {[raised |-> TRUE, out |-> <<>>]}
        ELSE {[raised |-> FALSE,
               out |-> Slice(ListSort(SelectSeq(Read(q), Keep), p.sort_by,
                                      p.sort_order = "desc"),
                             p.offset, p.limit)] : q \in listdir}

\* cursor.skip(offset).limit(limit): a limit of 0 is no limit.
SkipLimit(q, offset, limit) ==
    IF limit = 0 THEN SubSeq(q, offset + 1, Len(q)) ELSE Slice(q, offset, limit)

\* MongoDBTrajectoryStorage.get_trajectories: the possible results. The
\* documents matching the query come sorted by the field, documents with
\* equal values in an order the server chooses; then skip and limit.
MongoList(p) ==
    LET chosen == {j \in 1..Len(docs) :
                      /\ p.env_name = "None" \/ docs[j].env_name = p.env_name
                      /\ p.task_id = None \/ docs[j].task_id = p.task_id}
        sorted == {q \in Orders(chosen) :
                      \A i, j \in 1..Len(q) :
                          i < j => ~Before(docs[q[j]], docs[q[i]], p.sort_by,
                                           p.sort_order = "desc")}
    IN  {[raised |-> FALSE,
          out |-> SkipLimit([i \in 1..Len(q) |-> docs[q[i]]], p.offset, p.limit)] :
            q \in sorted}

\* The two storage classes.
Backends == {"file", "mongo"}

\* get_trajectory is called on a backend, once the result of the read
\* before it has been taken.
StoGet ==
    /\ ret = NoRead
    /\ \E b \in Backends, id \in 1..(uuids + 1) :
          ret' = [op |-> "get", backend |-> b, id |-> id,
                  result |-> IF b = "file" THEN FileGet(id) ELSE MongoGet(id)]
    /\ UNCHANGED <<envVars, totVars, ctlVars, mctsVars, agentVars, callVars,
                   files, docs, clock, uuids, saver, returned>>

\* get_trajectories is called on a backend.
StoList ==
    /\ ret = NoRead
    /\ \E b \in Backends, p \in ListParams :
          \E r \in IF b = "file" THEN FileList(p) ELSE MongoList(p) :
              ret' = [op |-> "list", backend |-> b, params |-> p, result |-> r]
    /\ UNCHANGED <<envVars, totVars, ctlVars, mctsVars, agentVars, callVars,
                   files, docs, clock, uuids, saver, returned>>

\* A read that truncates the oldest file as its result is taken.
StoTakeTruncating ==
    /\ ret # NoRead
    /\ ret' = NoRead
    /\ files' = [j \in 1..Len(files) |->
                    IF j = 1 THEN [files[j] EXCEPT !.content = <<>>] ELSE files[j]]
    /\ UNCHANGED <<envVars, totVars, ctlVars, mctsVars, agentVars, callVars,
                   docs, clock, uuids, saver, returned>>

\* The caller takes the result of its read.
StoTake ==
    /\ ret # NoRead
    /\ ret' = NoRead
    /\ UNCHANGED <<envVars, totVars, ctlVars, mctsVars, agentVars, callVars,
                   files, docs, clock, uuids, saver, returned>>

StoInit ==
    /\ env = EnvNew
    /\ client = ClientNew
    /\ netFails = 0
    /\ cfg = [nets |-> {"ok"}, conversation_start |-> <<>>]
    /\ files = <<>>
    /\ docs = <<>>
    /\ clock = 0
    /\ uuids = 0
    /\ saver = [w \in Savers |-> NoSave]
    /\ returned = <<>>
    /\ ret = NoRead
    /\ TotIdle
    /\ CtlIdle
    /\ MctsIdle
    /\ AgentIdle
    /\ CallIdle

StoNext ==
    \/ \E w \in Savers : SaveCall(w)
    \/ \E w \in Savers : SaveOpen(w)
    \/ \E w \in Savers : SaveDump(w)
    \/ \E w \in Savers : SaveReturn(w)
    \/ StoGet
    \/ StoList
    \/ StoTake

SpecSto == StoInit /\ [][StoNext]_vars


(***************************************************************************)
(* Properties of the trajectory storage                                    *)
(***************************************************************************)
\* The ids of either backend the save calls 1..n returned, in order.
RECURSIVE ReturnedIds(_, _)
ReturnedIds(n, b) ==
    IF n = 0 THEN <<>>
    ELSE ReturnedIds(n - 1, b)
         \o (IF b = "file" THEN returned[n].file_ids ELSE returned[n].mongo_ids)

\* No element occurs twice in the sequence.
Distinct(q) == \A i, j \in 1..Len(q) : i # j => q[i] # q[j]

\* C23: every save_trajectories call that returned, on either backend,
\* returned as many ids as it was given trajectories, whatever the length of
\* its task_ids list, and no id was returned twice, by the same call or by
\* two calls.
C23_OneFreshIdPerTrajectory ==
    /\ \A c \in 1..Len(returned) :
          /\ Len(returned[c].file_ids) = Len(returned[c].trajectories)
          /\ Len(returned[c].mongo_ids) = Len(returned[c].trajectories)
    /\ \A b \in Backends : Distinct(ReturnedIds(Len(returned), b))

\* Whether the id was drawn by no save call, returned or under way.
Unissued(id, b) ==
    /\ \A i \in 1..Len(ReturnedIds(Len(returned), b)) :
          ReturnedIds(Len(returned), b)[i] # id
    /\ \A w \in Savers :
          saver[w].pcs # "idle" =>
              \A i \in 1..Len(saver[w].file_ids) :
                  id # (IF b = "file" THEN saver[w].file_ids[i]
                        ELSE saver[w].mongo_ids[i])

GetTrajectory(b, id) == IF b = "file" THEN FileGet(id) ELSE MongoGet(id)

\* Whether the i-th id the call c returned leads to the i-th record the
\* call was to write.
Retrievable(b, c, i) ==
    LET ids == IF b = "file" THEN returned[c].file_ids ELSE returned[c].mongo_ids
        got == GetTrajectory(b, ids[i])
    IN  /\ ~got.raised
        /\ Len(got.out) = 1
        /\ got.out[1].trajectory = returned[c].trajectories[i]
        /\ got.out[1].env_name = returned[c].env_name
        /\ got.out[1].task_id = returned[c].task_ids[i]
        /\ got.out[1].metadata = MetadataOr(returned[c].metadata)

\* C25: once the save calls of all callers have returned, the ids they
\* returned are pairwise different, each backend holds exactly one record
\* per id, and every id leads to the record its own caller passed.
C25_ConcurrentSavesKeepAllRecords ==
    (\A w \in Savers : saver[w].pcs = "idle") =>
        /\ \A b \in Backends : Distinct(ReturnedIds(Len(returned), b))
        /\ Len(files) = Len(ReturnedIds(Len(returned), "file"))
        /\ Len(docs) = Len(ReturnedIds(Len(returned), "mongo"))
        /\ \A b \in Backends, c \in 1..Len(returned) :
              \A i \in 1..Len(returned[c].file_ids) : Retrievable(b, c, i)

\* Two calls overlapped: the call that returned last drew its id first.
C25_Witness ==
    /\ \A w \in Savers : saver[w].pcs = "idle"
    /\ Len(returned) = 2
    /\ Len(returned[1].file_ids) = 1
    /\ Len(returned[2].file_ids) = 1
    /\ returned[2].file_ids[1] < returned[1].file_ids[1]
    /\ returned[1].trajectories # returned[2].trajectories

\* The records a backend holds, in the order they were made: the documents
\* of the collection, the records of the files that are written.
Stored(b) ==
    IF b = "file"
    THEN LET Written(f) == f.content # <<>>
             written == SelectSeq(files, Written)
         IN  [j \in 1..Len(written) |-> JsonLoad(written[j].content[1])]
    ELSE docs

\* Whether the sequence is in the order of the sort field, upwards or
\* downwards.
InOrder(q, sort_by, sort_order) ==
    \A i, j \in 1..Len(q) :
        i < j => ~Before(q[j], q[i], sort_by, sort_order = "desc")

\* The listings the parameters ask for: the records of the backend that
\* match the filters given, in the order of the sort field, cut down to the
\* positions offset .. offset + limit - 1.
Listings(b, p) ==
    LET matching == {j \in 1..Len(Stored(b)) :
                        /\ p.env_name = "None" \/ Stored(b)[j].env_name = p.env_name
                        /\ p.task_id = None \/ Stored(b)[j].task_id = p.task_id}
    IN  {Slice([i \in 1..Len(q) |-> Stored(b)[q[i]]], p.offset, p.limit) :
            q \in {o \in Orders(matching) :
                      InOrder([i \in 1..Len(o) |-> Stored(b)[o[i]]],
                              p.sort_by, p.sort_order)}}

\* C26: a get_trajectories call that returns, on either backend, returns
\* the stored records matching its env_name and task_id filters, ordered by
\* the sort field in the direction asked for, from position offset on and
\* limit of them at most, for every limit and offset from 0 on.
C26_ListFiltersSortsAndPaginates ==
    ret.op = "list" /\ ~ret.result.raised =>
        ret.result.out \in Listings(ret.backend, ret.params)

\* The id the MongoDB backend gave the trajectory that the file backend
\* gave the id to: every iteration draws the file's id, then the document's.
Twin(file_id) == file_id + 1

\* C27: when both backends have been given the same trajectories and no
\* save is under way, get_trajectories with the same parameters returns the
\* same trajectories in the same order on both, ties on the sort field, an
\* absent sort field and limit = 0 included.
C27_BackendsListAlike ==
    (\A w \in Savers : saver[w].pcs = "idle") =>
        \A p \in ListParams :
            \A f \in FileList(p), m \in MongoList(p) :
                [i \in 1..Len(f.out) |-> Twin(f.out[i].id)]
                    = [i \in 1..Len(m.out) |-> m.out[i].id]

\* C28: no step changes what get_trajectory yields for an id a save call
\* has returned: whatever is saved, got or listed afterwards, the record
\* stays as it was.
C28_StoredRecordsAreImmutable ==
    [][\A b \in Backends :
          \A i \in 1..Len(ReturnedIds(Len(returned), b)) :
              GetTrajectory(b, ReturnedIds(Len(returned), b)[i])'
                  = GetTrajectory(b, ReturnedIds(Len(returned), b)[i])]_vars

\* A record of the first save is got after a second save has written its
\* own.
C28_Witness ==
    /\ ret.op = "get"
    /\ Len(returned) = 2
    /\ returned[1].file_ids # <<>>
    /\ returned[2].file_ids # <<>>
    /\ ret.id = (IF ret.backend = "file" THEN returned[1].file_ids[1]
                 ELSE returned[1].mongo_ids[1])
    /\ Len(ret.result.out) = 1
    /\ ret.result.out[1].trajectory = returned[1].trajectories[1]


(***************************************************************************)
(* RLAgent: construction from an RLAgentConfig, then run()                 *)
(***************************************************************************)
\* The values of RLAgentConfig.rollout_strategy and storage_backend: the
\* names _init_controller knows and one it does not know each.
RolloutStrategies == {"StandardReAct", "ToT", "MCTS", "Greedy"}
StorageBackends == {"file", "mongodb", "sqlite"}

\* _init_controller: the rollout strategy of the configured name.
SelectStrategy(name) ==
    IF name = "StandardReAct"
    THEN [raised |-> FALSE, out |-> "StandardReActStrategy"]
    ELSE IF name = "ToT" THEN [raised |-> FALSE, out |-> "ToTStrategy"]
    ELSE IF name = "MCTS" THEN [raised |-> FALSE, out |-> "MCTSStrategy"]
    ELSE [raised |-> TRUE, out |-> "ValueError: Unknown strategy: " \o name]

\* A selection that falls back to the file backend.
SelectStorageOrFile(name, up) ==
    [raised |-> FALSE,
     out |-> IF name = "mongodb" /\ up THEN "MongoDBTrajectoryStorage"
             ELSE "FileTrajectoryStorage"]

\* _init_controller: the storage of the configured name. The constructor of
\* the MongoDB storage imports pymongo and has an index made by the server;
\* it raises when either is not there.
SelectStorage(name, up) ==
    IF name = "mongodb"
    THEN IF up THEN [raised |-> FALSE, out |-> "MongoDBTrajectoryStorage"]
         ELSE [raised |-> TRUE, out |-> "ImportError"]
    ELSE IF name = "file" THEN [raised |-> FALSE, out |-> "FileTrajectoryStorage"]
    ELSE [raised |-> TRUE, out |-> "ValueError: Unknown storage backend: " \o name]

\* RLAgent.__init__ and _init_controller: the client and the task are made,
\* the strategy is selected, then the storage, then the RLController is
\* made; an exception of a selection leaves __init__ and no RLAgent exists.
AgentInitController ==
    /\ agent.pc = "new"
    /\ \E up \in BOOLEAN :
          LET strategy == SelectStrategy(agent.rollout_strategy)
              store == SelectStorage(agent.storage_backend, up)
          IN  agent' =
                  IF strategy.raised
                  THEN [agent EXCEPT !.pc = "raised", !.error = strategy.out]
                  ELSE IF store.raised
                  THEN [agent EXCEPT !.pc = "raised", !.strategy = strategy.out,
                                     !.error = store.out]
                  ELSE [agent EXCEPT !.pc = "constructed",
                                     !.strategy = strategy.out,
                                     !.storage = store.out,
                                     !.controller = TRUE]
    /\ UNCHANGED <<envVars, totVars, ctlVars, mctsVars, stoVars, callVars>>

\* RLAgent.run: self.controller.rollout(..., save_to_storage=True, ...). It
\* needs the RLAgent object and its controller. The rollouts of the
\* controller are followed here under the Sequential strategy.
AgentRun ==
    /\ agent.pc = "constructed"
    /\ agent.controller
    /\ agent.strategy = "StandardReActStrategy"
    /\ cpc = "idle"
    /\ cpc' = "call"
    /\ UNCHANGED <<envVars, totVars, mctsVars, restVars, batch, fut, results,
                   storage>>

AgentInit ==
    /\ env = EnvNew
    /\ client = ClientNew
    /\ netFails = 0
    /\ \E idxs \in SeqsUpTo(TaskIdxs, MaxTasks), parallel \in BOOLEAN,
          batch_size \in PoolSizes, max_workers \in PoolSizes, r \in RoundLimits :
          /\ ~parallel => batch_size = 1 /\ max_workers = 1
          /\ cfg = [idxs |-> idxs, parallel |-> parallel, batch_size |-> batch_size,
                    max_workers |-> max_workers, save_to_storage |-> TRUE,
                    max_rounds |-> r, utterances |-> CtlActions,
                    nets |-> Nets, conversation_start |-> <<>>,
                    metadata |-> "{run: 1}"]
    /\ \E s \in RolloutStrategies, b \in StorageBackends :
          agent = [pc |-> "new", rollout_strategy |-> s, storage_backend |-> b,
                   strategy |-> "None", storage |-> "None", controller |-> FALSE,
                   error |-> "None"]
    /\ CtlIdle
    /\ TotIdle
    /\ MctsIdle
    /\ StoIdle
    /\ CallIdle

AgentNext ==
    \/ AgentInitController
    \/ AgentRun
    \/ CtlNext

SpecAgent == AgentInit /\ [][AgentNext]_vars

\* C29: with a rollout strategy name or a storage backend name that
\* _init_controller does not know, the construction of the agent ends in an
\* error, no controller is made and no rollout is ever started.
C29_UnknownNamesFailConstruction ==
    (\/ agent.rollout_strategy \notin {"StandardReAct", "ToT", "MCTS"}
     \/ agent.storage_backend \notin {"file", "mongodb"}) =>
        /\ agent.pc \in {"new", "raised"}
        /\ ~agent.controller
        /\ agent.pc = "raised" => agent.error # "None"
        /\ CtlIdle

\* The construction failed on the storage name after the strategy was made.
C29_Witness ==
    /\ agent.pc = "raised"
    /\ agent.rollout_strategy = "ToT"
    /\ agent.storage_backend = "sqlite"
    /\ agent.strategy = "ToTStrategy"
    /\ agent.error = "ValueError: Unknown storage backend: sqlite"


(***************************************************************************)
(* The order of events within one Sequential rollout                       *)
(***************************************************************************)
\* Run k makes a round in this step: a generate call, then a step call.
MakesRound(k) ==
    /\ fut[k].pcw = "loop"
    /\ fut'[k].rounds = fut[k].rounds + 1

\* C30: every round of a Sequential rollout is a generate followed by a
\* step. The transcript the generate is given ends with an observation, the
\* initial one or the state the step before returned; the round appends the
\* utterance generated and then the state its step returned, nothing else;
\* the action the server is stepped with is that utterance; and the
\* transcript for the next generate ends with the utterance and the state
\* returned.
C30_GenerateAndStepAlternate ==
    [][\A k \in 1..N :
          MakesRound(k) =>
              LET before == fut[k].conversation
                  after == fut'[k].conversation
                  n == Len(before)
              IN  /\ n > 0
                  /\ LastTurn(before).from = "human"
                  /\ fut[k].rounds = 0
                         => /\ n = Len(conversation_start) + 1
                            /\ SubSeq(before, 1, n - 1) = conversation_start
                  /\ Len(after) = n + 2
                  /\ SubSeq(after, 1, n) = before
                  /\ after[n + 1].from = "gpt"
                  /\ after[n + 2].from = "human"
                  /\ \/ env' = env /\ after[n + 2].value = ErrorState
                     \/ /\ env' = EnvStep(env, after[n + 1].value).env
                        /\ after[n + 2].value
                              \in {EnvStep(env, after[n + 1].value).state, ErrorState}
                  /\ BuildText(after)
                        = BuildText(before) \o "\nAssistant: " \o after[n + 1].value
                              \o "\nHuman: " \o after[n + 2].value]_vars

\* A rollout made two rounds with different utterances, both answered.
C30_Witness ==
    \E k \in 1..N :
        /\ fut[k].rounds = 2
        /\ Len(fut[k].conversation) >= 5
        /\ fut[k].conversation[Len(fut[k].conversation) - 3].value
               = "view hiking backpack"
        /\ fut[k].conversation[Len(fut[k].conversation) - 1].value = "buy"
        /\ LastTurn(fut[k].conversation).value # ErrorState


(***************************************************************************)
(* Stopping conditions of the Tree-Exploring strategy                      *)
(***************************************************************************)
\* A pass of the branch loop steps the environment in this step.
TreeStepIssued == pc = "tree" /\ Len(nodes') > Len(nodes)

\* The steps taken on the branch the active _generate_tree call extends:
\* one per call below it on the stack.
BranchStepsSoFar == [j \in 1..(Len(stack) - 1) |-> stack[j].child]

\* C31: a step is issued only on a branch none of whose steps reported done
\* and that holds fewer than depth agent actions, and fewer than max_rounds
\* when max_rounds is given; and in the tree that is extracted no
\* root-to-leaf path holds more than depth agent actions, nor more than
\* max_rounds, nor an action after one that reported done.
C31_NoBranchPastItsStop ==
    [][/\ TreeStepIssued =>
              /\ \A j \in 1..Len(BranchStepsSoFar) :
                     ~nodes[BranchStepsSoFar[j]].done
              /\ Len(BranchStepsSoFar) < cfg.depth
              /\ cfg.max_rounds # None => Len(BranchStepsSoFar) < cfg.max_rounds
       /\ pc = "extract" =>
              \A n \in Leaves :
                  /\ Len(PathSteps(n)) <= cfg.depth
                  /\ cfg.max_rounds # None => Len(PathSteps(n)) <= cfg.max_rounds
                  /\ \A k \in 1..(Len(PathSteps(n)) - 1) :
                         ~nodes[PathSteps(n)[k]].done]_vars

\* With depth left and no round limit, a branch ended at its first step
\* because that step reported done, and a sibling went on to a second step.
C31_Witness ==
    /\ pc = "done"
    /\ cfg.depth = 2
    /\ cfg.max_rounds = None
    /\ \E n \in Leaves : Len(PathSteps(n)) = 1 /\ nodes[n].done
    /\ \E n \in Leaves : Len(PathSteps(n)) = 2


(***************************************************************************)
(* The simulations of the Search-Guided strategy                           *)
(***************************************************************************)
\* A simulation takes a follow-up step in this step.
SimFollowUp == mpc = "search" /\ search.sim.active /\ search' # search

\* A simulation ends in this step.
SimEnds == mpc = "search" /\ mpc' = "search" /\ search'.sims = search.sims + 1

\* C32: a simulation takes its candidate action and then at most 5
\* follow-up steps, none after a step that reported done, and what it adds
\* to the total of its candidate is the reward of the last step it took.
C32_SimulationIsBoundedAndScoresLastStep ==
    [][/\ SimFollowUp =>
              /\ ~search.sim.done
              /\ search.sim.sim_rounds < 5
              /\ search'.sim.active => search'.sim.sim_rounds = search.sim.sim_rounds + 1
       /\ SimEnds =>
              \E a \in MctsActions, net \in Nets :
                  LET r == ClientStep(IF search.sim.active THEN search.sim.client
                                      ELSE search.client, env, a, net)
                  IN  /\ ~search.sim.active => a = search.candidate_actions[search.ci]
                      /\ env' = r.env
                      /\ netFails' = CountFail(net)
                      /\ 1 + (IF search.sim.active THEN search.sim.sim_rounds + 1 ELSE 0)
                             <= 6
                      /\ search'.total_reward = search.total_reward + r.out.reward]_vars

\* The first simulation of a search took six steps, none of which reported
\* done, and ended.
C32_Witness ==
    /\ mpc = "search"
    /\ mcts.rounds = 0
    /\ search.ci = 1
    /\ search.sims = 1
    /\ ~search.sim.active
    /\ netFails = 0
    /\ env.steps = 6
    /\ ~env.done


(***************************************************************************)
(* A WebEnvClient used directly: reset, step and observe in any order,     *)
(* against a server whose step responses hold all or some of the fields.   *)
(***************************************************************************)
\* The calls made on the client in one behaviour.
MaxClientCalls == 4

\* reset(idx) is called.
CallReset ==
    /\ call.n < MaxClientCalls
    /\ \E idx \in TaskIdxs, net \in NetChoices :
          LET r == ClientReset(client, env, idx, net)
          IN  /\ client' = r.client
              /\ env' = r.env
              /\ netFails' = CountFail(net)
              /\ call' = [op |-> "reset", n |-> call.n + 1, before |-> client,
                          idx |-> idx]
    /\ UNCHANGED <<cfg, totVars, ctlVars, mctsVars, stoVars, agentVars>>

\* step(action) is called. The call is recorded with the client before it,
\* the body the server computed, whether a response arrived with a success
\* status, the fields the response held, and the StepOutput returned.
CallStep ==
    /\ call.n < MaxClientCalls
    /\ \E a \in Actions, net \in NetChoices, shape \in ResponseShapes :
          LET r == EnvStep(env, a)
              s == ClientStepShaped(client, env, a, net, shape)
          IN  /\ client' = s.client
              /\ env' = s.env
              /\ netFails' = CountFail(net)
              /\ call' = [op |-> "step", n |-> call.n + 1, before |-> client,
                          action |-> a,
                          answered |-> net = "ok" /\ ~r.raised,
                          shape |-> shape,
                          response |-> [state |-> r.state, reward |-> r.reward,
                                        done |-> r.done],
                          out |-> s.out]
    /\ UNCHANGED <<cfg, totVars, ctlVars, mctsVars, stoVars, agentVars>>

\* Whether the call recorded is a step that failed: no response with a
\* success status, or a body without the state.
StepFailed(c) == c.op = "step" /\ ~(c.answered /\ "state" \in c.shape)

\* observe() is called; it is recorded with what it returned, whether the
\* call before it was a failed step, and the client before that call.
CallObserve ==
    /\ call.n < MaxClientCalls
    /\ call.op # "observe"
    /\ call' = [op |-> "observe", n |-> call.n + 1,
                before |-> IF call.op = "none" THEN client ELSE call.before,
                after_failed_step |-> StepFailed(call),
                out |-> ClientObserve(client)]
    /\ UNCHANGED <<envVars, totVars, ctlVars, mctsVars, stoVars, agentVars>>

CallInit ==
    /\ env = EnvNew
    /\ client = ClientNew
    /\ netFails = 0
    /\ cfg = [nets |-> NetsAll, conversation_start |-> <<>>]
    /\ call = [op |-> "none", n |-> 0]
    /\ TotIdle
    /\ CtlIdle
    /\ MctsIdle
    /\ StoIdle
    /\ AgentIdle

CallNext == CallReset \/ CallStep \/ CallObserve

SpecCall == CallInit /\ [][CallNext]_vars

\* C33: when a step is answered by a body that holds the state, the
\* StepOutput carries that state, the client stores it and observe() yields
\* it; done is the body's done, or false when the body has none; reward is
\* the body's reward, or 0.0 when the body has none.
C33_MissingFieldsTakeDefaults ==
    call.op = "step" /\ call.answered /\ "state" \in call.shape =>
        /\ call.out.state = call.response.state
        /\ client.current_state = call.response.state
        /\ ClientObserve(client) = call.response.state
        /\ call.out.done = (IF "done" \in call.shape THEN call.response.done
                            ELSE FALSE)
        /\ call.out.reward = (IF "reward" \in call.shape THEN call.response.reward
                              ELSE 0)

\* The server ended the episode with a reward, and the body held the state
\* only.
C33_Witness ==
    /\ call.op = "step"
    /\ call.answered
    /\ call.shape = {"state"}
    /\ call.response.done
    /\ call.response.reward > 0
    /\ ~call.out.done
    /\ call.out.reward = 0


\* C38: a step that failed leaves the client's stored state and current_idx
\* as they were before it, and an observe() called right after it returns
\* the state from before the step, never the diagnostic of the failure.
C38_FailedStepKeepsClient ==
    /\ StepFailed(call) =>
          /\ client.current_state = call.before.current_state
          /\ client.current_idx = call.before.current_idx
          /\ ClientObserve(client) = call.before.current_state
    /\ call.op = "observe" /\ call.after_failed_step =>
          /\ call.out = call.before.current_state
          /\ client.current_state = call.before.current_state
          /\ client.current_idx = call.before.current_idx

\* observe() was called after a step that failed on a client that had been
\* reset and so held an observation of its task.
C38_Witness ==
    /\ call.op = "observe"
    /\ call.after_failed_step
    /\ call.before.current_idx # None
    /\ call.before.current_state # ""
    /\ call.out # ErrorState


(***************************************************************************)
(* The turns of the experiences of the Tree-Exploring strategy             *)
(***************************************************************************)
\* The turns of a conversation after conversation_start (all of them when
\* the conversation does not begin with conversation_start).
AfterStart(conv) ==
    LET n == Len(conversation_start)
    IN  IF Len(conv) >= n /\ SubSeq(conv, 1, n) = conversation_start
        THEN SubSeq(conv, n + 1, Len(conv))
        ELSE conv

\* Human, Agent, Human, Agent, ...
Alternates(turns) ==
    \A k \in 1..Len(turns) :
        turns[k].from = (IF k % 2 = 1 THEN "human" ELSE "gpt")

\* C34: in every experience the Tree-Exploring strategy returns, the turns
\* after conversation_start alternate strictly Human, Agent, Human, Agent,
\* and the Human turn before the j-th Agent action holds the observation
\* that action was generated for.
C34_TurnsAlternate ==
    pc = "done" =>
        \A t \in 1..Len(trajectories) :
            LET turns == AfterStart(trajectories[t].conversation)
                steps == PathSteps(LeafSeq[t])
            IN  /\ Alternates(turns)
                /\ \A j \in 1..Len(steps) :
                      /\ 2 * j <= Len(turns)
                      /\ turns[2 * j - 1] = Human(nodes[steps[j]].observation)


(***************************************************************************)
(* Reads of the file storage while a save is under way                     *)
(***************************************************************************)
\* C35: a get_trajectory or get_trajectories call on the file storage never
\* fails and returns whole records only, also when a save call has created
\* a file and not yet finished writing it.
C35_FileReadsNeverFail ==
    ret # NoRead /\ ret.backend = "file" =>
        /\ ~ret.result.raised
        /\ \A i \in 1..Len(ret.result.out) :
              ret.result.out[i] \in Range(Stored("file"))


(***************************************************************************)
(* Rollouts that have nothing to do or that abort                          *)
(***************************************************************************)
\* C36: rollout called with an empty list of task indices does not raise,
\* returns an empty list, and resets, steps and saves nothing.
C36_EmptyIdxsReturnsEmpty ==
    cfg.idxs = <<>> =>
        /\ cpc # "raised"
        /\ results = <<>>
        /\ storage = <<>>
        /\ env = EnvNew
        /\ client = ClientNew


\* The runs of the rollout whose _rollout_one has returned, and those that
\* left it by an exception before their strategy had returned trajectories.
ReturnedRuns == {k \in 1..Len(fut) : fut[k].pcw = "returned"}
AbortedRuns == {k \in 1..Len(fut) : fut[k].pcw = "raised" /\ fut[k].trajectories = <<>>}

\* The records stored for a task index.
RecordsOf(idx) == {j \in 1..Len(storage) : storage[j].task_id = idx}

\* C37: the storage holds records of runs whose strategy has returned only:
\* for every task index as many records as runs of that index have returned
\* (none when saving is off), so a run that aborted has stored nothing.
C37_AbortedRunsStoreNothing ==
    \A idx \in TaskIdxs :
        Cardinality(RecordsOf(idx)) =
            (IF cfg.save_to_storage
             THEN Cardinality({k \in ReturnedRuns : fut[k].idx = idx})
             ELSE 0)

\* A run that had reset and observed its task was aborted by a failing
\* generate while saving was on, no run of its index has returned, and
\* another run's record is stored.
C37_Witness ==
    /\ cfg.save_to_storage
    /\ storage # <<>>
    /\ \E k \in AbortedRuns :
          /\ fut[k].conversation # <<>>
          /\ RecordsOf(fut[k].idx) = {}


(***************************************************************************)
(* Termination of the Tree-Exploring strategy                              *)
(***************************************************************************)
\* The strategy is entered as in ToTInit; the conversation prefix plays no
\* part in the control flow and is left empty.
ToTFairInit == ToTInit /\ cfg.conversation_start = <<>>

\* The step of ToTExtract, told by the control state alone.
ExtractReturns == pc = "extract" /\ pc' = "done"

\* execute runs on one thread and every call it makes returns (generate
\* returns its tokens, step returns a StepOutput within its timeout or from
\* its except clause): a step of the strategy that can be taken is taken,
\* while the tree is built and when it is extracted.
SpecToTFair ==
    /\ ToTFairInit
    /\ [][ToTNext]_vars
    /\ WF_vars(ToTExecute \/ ToTBranch \/ ToTReturn)
    /\ WF_pc(ExtractReturns)

\* The environment steps the strategy has issued.
StepsIssued == Cardinality({n \in 1..Len(nodes) : StepNode(n)})

\* C39: the Tree-Exploring strategy always comes to its end, with or without
\* max_rounds and whatever the environment reports, and issues at most
\* b + b^2 + ... + b^d environment steps for b branches and depth d.
C39_TreeTerminatesWithinItsSteps ==
    /\ <>(pc = "done")
    /\ [](StepsIssued <= TreeSteps(cfg.num_branches, cfg.depth))

\* Without max_rounds and with no step reporting done, the strategy has
\* ended after all b + b^2 steps of two branches at depth two.
C39_Witness ==
    /\ pc = "done"
    /\ cfg.max_rounds = None
    /\ cfg.num_branches = 2
    /\ cfg.depth = 2
    /\ \A n \in 1..Len(nodes) : ~nodes[n].done
    /\ StepsIssued = TreeSteps(2, 2)


(***************************************************************************)
(* The client handed to the Tree-Exploring strategy                        *)
(***************************************************************************)
\* C40: no step of the Tree-Exploring strategy changes the client it was
\* given, and when execute has returned that client still holds the state
\* it was observed in at the start and the task index it was reset to.
C40_CallerClientIsNotStepped ==
    [][/\ client' = client
       /\ pc' = "done" =>
              /\ ClientObserve(client') = nodes'[1].observation
              /\ \E idx \in TaskIdxs :
                     client' = ClientReset(ClientNew, EnvNew, idx, "ok").client]_vars

\* execute has returned after a branch client was stepped to a state other
\* than the one the caller's client holds.
C40_Witness ==
    /\ pc = "done"
    /\ \E n \in 2..Len(nodes) :
          /\ StepNode(n)
          /\ nodeNet[n] = "ok"
          /\ nodes[n].children # <<>>
          /\ nodes[nodes[n].children[1]].observation # ClientObserve(client)

====
